---------------------------- MODULE Spec2Model ----------------------------
(***************************************************************************)
(* A model of the astr engine: the AstronomyEngine of the core module      *)
(* (calculateVimshottariDasha, _calculateAntardashas, _normalizeDegrees),  *)
(* the AstronomyEngine inlined in App.jsx (calculateDasha, normalize) and  *)
(* their configuration tables.                                             *)
(*                                                                         *)
(* Numbers.  Longitudes are counted in units of 1/LonScale degree.  The    *)
(* nakshatra arc is 40/3 degrees, so 3*longitude is compared with          *)
(* ArcDen = 40*LonScale.  Years are counted in units of 1/ArcDen year      *)
(* (the denominator of fractionConsumed) and Julian days in ticks, one     *)
(* sidereal year being ArcDen*TickScale ticks; every product and quotient  *)
(* of the Dasha code is then an exact integer.  A Dasha number is a        *)
(* record [nan, v] because the code can produce NaN.  _normalizeDegrees    *)
(* is modelled on binary64 values, see FNum below.                         *)
(***************************************************************************)
EXTENDS Integers, Sequences, FiniteSets, TLC

\* ------------------------------------------------------------------ bounds
LonScale == 10       \* longitude units per degree
MaxBirthJD == 7      \* birth Julian days are 0 and MaxBirthJD ticks
MaxSubYears == 2     \* whole years of a directly subdivided period
MaxDeg == 725        \* normalize is applied to -MaxDeg..MaxDeg whole degrees
MaxEps == 9          \* ... and to -MaxEps..MaxEps units of 2^-46 degree

\* --------------------------------------------------------------- JS values
Undefined == "undefined"

Num(x) == [nan |-> FALSE, v |-> x]
NaN == [nan |-> TRUE, v |-> 0]

\* a + b, a * b, a / b on JS numbers: NaN is absorbing
JsAdd(a, b) == IF a.nan \/ b.nan THEN NaN ELSE Num(a.v + b.v)
JsMul(a, b) == IF a.nan \/ b.nan THEN NaN ELSE Num(a.v * b.v)
JsDiv(a, b) == IF a.nan \/ b.nan \/ b.v = 0 THEN NaN ELSE Num(a.v \div b.v)

\* a % b of JS on integers: the sign of the dividend
JsMod(a, b) == IF a >= 0 THEN a % b ELSE -((-a) % b)

\* arr[i] of JS, i counted from 0: undefined outside the array
PlanetAt(arr, i) == IF i \in 0..(Len(arr) - 1) THEN arr[i + 1] ELSE Undefined
DurationAt(arr, i) == IF i \in 0..(Len(arr) - 1) THEN Num(arr[i + 1]) ELSE NaN

\* arr.indexOf(x): the first index, counted from 0, or -1
IndexOf(arr, x) ==
    IF \E k \in 1..Len(arr) : arr[k] = x
    THEN (CHOOSE k \in 1..Len(arr) : arr[k] = x /\ \A j \in 1..(k - 1) : arr[j] # x) - 1
    ELSE -1

\* ------------------------------------------------------------- constructor
ArcNum == 40
ArcDen == ArcNum * LonScale          \* 3 * NAKSHATRA_ARC in longitude units
FullCircle == 360 * LonScale
TickScale == 120 * 9                 \* ticks per 1/ArcDen of a sidereal year
SIDEREAL_YEAR == ArcDen * TickScale  \* one sidereal year in ticks

\* a YOGINI table with its last duration lost
YoginiConfig_dropped ==
    [totalCycle |-> 36,
     planets |-> <<"Mangala", "Pingala", "Dhanya", "Bhramari", "Bhadrika", "Ulka", "Siddha", "Sankata">>,
     durations |-> <<1, 2, 3, 4, 5, 6, 7>>,
     startNakshatraOffset |-> 0]

VimshottariConfig ==
    [totalCycle |-> 120,
     planets |-> <<"Ketu", "Venus", "Sun", "Moon", "Mars", "Rahu", "Jupiter", "Saturn", "Mercury">>,
     durations |-> <<7, 20, 6, 10, 7, 18, 16, 19, 17>>,
     startNakshatraOffset |-> 0]

AshtottariConfig ==
    [totalCycle |-> 108,
     planets |-> <<"Sun", "Moon", "Mars", "Mercury", "Saturn", "Jupiter", "Rahu", "Venus">>,
     durations |-> <<6, 15, 8, 17, 10, 19, 12, 21>>,
     startNakshatraOffset |-> 2]

YoginiConfig ==
    [totalCycle |-> 36,
     planets |-> <<"Mangala", "Pingala", "Dhanya", "Bhramari", "Bhadrika", "Ulka", "Siddha", "Sankata">>,
     durations |-> <<1, 2, 3, 4, 5, 6, 7, 8>>,
     startNakshatraOffset |-> 0]

dashaDefinitionsInit ==
    [VIMSHOTTARI |-> VimshottariConfig,
     ASHTOTTARI |-> AshtottariConfig,
     YOGINI |-> YoginiConfig]

Schemes == {"VIMSHOTTARI", "ASHTOTTARI", "YOGINI"}

nakshatrasInit ==
    <<"Ashwini", "Bharani", "Krittika", "Rohini", "Mrigashira", "Ardra",
      "Punarvasu", "Pushya", "Ashlesha", "Magha", "Purva Phalguni",
      "Uttara Phalguni", "Hasta", "Chitra", "Swati", "Vishakha", "Anuradha",
      "Jyeshtha", "Mula", "Purva Ashadha", "Uttara Ashadha", "Shravana",
      "Dhanishta", "Shatabhisha", "Purva Bhadrapada", "Uttara Bhadrapada", "Revati">>

\* the tables of the AstronomyEngine inlined in App.jsx
dashaDurationsInit == <<7, 20, 6, 10, 7, 18, 16, 19, 17>>
dashaOrderInit == <<"Ketu", "Venus", "Sun", "Moon", "Mars", "Rahu", "Jupiter", "Saturn", "Mercury">>

VARIABLES
    dashaDefinitions,   \* this.dashaDefinitions of the core engine
    nakshatras,         \* this.nakshatras
    dashaDurations,     \* this.dashaDurations of the App.jsx engine
    dashaOrder,         \* this.dashaOrder of the App.jsx engine
    op,                 \* the call whose result is held, "idle" between calls
    moonLong,           \* its Moon longitude, in 1/LonScale degree
    birthJD,            \* its birth (or start) Julian day, in ticks
    timeline,           \* what calculateVimshottariDasha returned
    appTimeline,        \* what calculateDasha of App.jsx returned
    scheme,             \* the config a direct _calculateAntardashas call was given
    subLord,            \* ... its mDashaLord
    subDays,            \* ... its totalDays, in ticks
    ads,                \* what it returned
    normIn,             \* the argument of the last normalize call
    normOut             \* what it returned

VARIABLES
    error,              \* what the held call threw, "none" when it returned
    lonIn,              \* the longitude given to getNakshatraInfo
    nakOut,             \* what getNakshatraInfo returned
    civil,              \* the civil time and offset given to calculateJulianDay
    jdOut,              \* what calculateJulianDay returned
    date,               \* what JulianConverter.toDate returned for jdOut
    panSun,             \* calculatePanchang's sunLong
    panMoon,            \* ... its moonLong
    panJD,              \* ... its jd
    panchang,           \* what it returned
    sidIn,              \* tropicalLong - ayanamsa of computeSiderealLongitude
    sidOut              \* what computeSiderealLongitude returned

VARIABLES
    locale,             \* the runtime's default locale
    prev                \* an earlier call and its result, kept for comparison

dashaVars == <<moonLong, birthJD, timeline, appTimeline, scheme, subLord, subDays,
               ads, normIn, normOut>>

pureVars == <<locale, prev>>

\* GeoEngine.findCity: the arguments of the call and what it returned or threw
VARIABLES
    queryIn,
    filterIn,
    cityOut

geoVars == <<queryIn, filterIn, cityOut>>

\* The App component: its React state, the triggerAi calls made so far, the
\* stage of every request sent, the prompt of the latest call, and the
\* request whose outcome aiResponse shows
VARIABLES
    selectedCity,
    query,
    searchResults,
    aiResponse,
    loading,
    input,
    calls,
    requests,
    lastPrompt,
    shownFor

appState == <<selectedCity, query, searchResults, aiResponse, loading, input>>
chatVars == <<appState, calls, requests, lastPrompt, shownFor>>

calVars == <<error, lonIn, nakOut, civil, jdOut, date, panSun, panMoon, panJD,
             panchang, sidIn, sidOut>>

vars == <<dashaDefinitions, nakshatras, dashaDurations, dashaOrder, op, moonLong,
          birthJD, timeline, appTimeline, scheme, subLord, subDays, ads,
          normIn, normOut, calVars, pureVars, geoVars, chatVars>>

tables == <<dashaDefinitions, nakshatras, dashaDurations, dashaOrder>>

\* ---------------------------------------------------------- getNakshatraInfo
\* index = floor(long / NAKSHATRA_ARC), remainingArc = long % NAKSHATRA_ARC,
\* pada = floor(remainingArc / PADA_ARC) + 1.  remainingArc is kept tripled
\* (rem3 / 3 longitude units), so fractionConsumed = rem3 / ArcDen.
\* the _padaFromZero variant counts the pada from 0
getNakshatraInfo_padaFromZero(siderealMoonLong) ==
    LET nakIndex == (3 * siderealMoonLong) \div ArcDen
        rem3 == JsMod(3 * siderealMoonLong, ArcDen)
    IN  [index |-> nakIndex,
         name |-> PlanetAt(nakshatras, nakIndex),
         pada |-> (4 * rem3) \div ArcDen,
         fractionConsumed |-> rem3,
         totalLongitude |-> siderealMoonLong]

getNakshatraInfo(siderealMoonLong) ==
    LET nakIndex == (3 * siderealMoonLong) \div ArcDen
        rem3 == JsMod(3 * siderealMoonLong, ArcDen)
    IN  [index |-> nakIndex,
         name |-> PlanetAt(nakshatras, nakIndex),
         pada |-> ((4 * rem3) \div ArcDen) + 1,
         fractionConsumed |-> rem3,
         totalLongitude |-> siderealMoonLong]

\* ------------------------------------------------------ _calculateAntardashas
\* adLordIdx = (mLordIdx + i) % 9; the _fromStart variant restarts every
\* subdivision at lordOrder[0]
adLordIdx_fromStart(mLordIdx, i) == JsMod(i, 9)
adLordIdx(mLordIdx, i) == JsMod(mLordIdx + i, 9)

\* adDays = (totalDays * adDurationYears) / config.totalCycle; the
\* _fixedCycle variant divides by another scheme's cycle
adDays_fixedCycle(totalDays, adDurationYears, config) ==
    JsDiv(JsMul(totalDays, adDurationYears), Num(108))
adDays(totalDays, adDurationYears, config) ==
    JsDiv(JsMul(totalDays, adDurationYears), Num(config.totalCycle))

\* currentJD += days; the _skipping variant leaves a gap after the period
advanceJD_skipping(currentJD, days) == JsAdd(JsAdd(currentJD, days), Num(1))
advanceJD(currentJD, days) == JsAdd(currentJD, days)

RECURSIVE adLoop(_, _, _, _, _, _)
adLoop(i, currentJD, adsSoFar, mLordIdx, totalDays, config) ==
    IF i >= 9 THEN adsSoFar
    ELSE LET idx == adLordIdx(mLordIdx, i)
             adLord == PlanetAt(config.planets, idx)
             adDurationYears == DurationAt(config.durations, idx)
             days == adDays(totalDays, adDurationYears, config)
         IN  adLoop(i + 1, advanceJD(currentJD, days),
                    Append(adsSoFar, [lord |-> adLord,
                                      startJD |-> currentJD,
                                      endJD |-> JsAdd(currentJD, days)]),
                    mLordIdx, totalDays, config)

_calculateAntardashas(mDashaLord, startJD, totalDays, config) ==
    adLoop(0, startJD, <<>>, IndexOf(config.planets, mDashaLord), totalDays, config)

\* -------------------------------------------------- calculateVimshottariDasha
\* firstLordIndex = nakInfo.index % 9; the _shifted variant is off by one
firstLordIndex_shifted(nakInfo) == JsMod(nakInfo.index + 1, 9)
firstLordIndex(nakInfo) == JsMod(nakInfo.index, 9)

\* balanceYears = (1 - nakInfo.fractionConsumed) * firstLordDuration, in 1/ArcDen year
balanceYears(nakInfo, firstLordDuration) ==
    JsMul(Num(ArcDen - nakInfo.fractionConsumed), firstLordDuration)

\* balanceDays = balanceYears * SIDEREAL_YEAR
balanceDays(years) == JsMul(years, Num(TickScale))

\* actualDurationDays = isFirst ? balanceDays : fullDurationYears * SIDEREAL_YEAR;
\* the _allTruncated variant truncates every period
actualDurationDays_allTruncated(isFirst, balDays, fullDurationYears) == balDays
actualDurationDays(isFirst, balDays, fullDurationYears) ==
    IF isFirst THEN balDays ELSE JsMul(fullDurationYears, Num(SIDEREAL_YEAR))

RECURSIVE mdLoop(_, _, _, _, _, _, _)
mdLoop(i, currentJD, lordIdx, isFirst, soFar, balDays, config) ==
    IF i >= 9 THEN soFar
    ELSE LET lord == PlanetAt(config.planets, lordIdx)
             fullDurationYears == DurationAt(config.durations, lordIdx)
             days == actualDurationDays(isFirst, balDays, fullDurationYears)
             mahadasha == [lord |-> lord,
                           startJD |-> currentJD,
                           endJD |-> JsAdd(currentJD, days),
                           antardashas |-> _calculateAntardashas(lord, currentJD, days, config)]
         IN  mdLoop(i + 1, advanceJD(currentJD, days), JsMod(lordIdx + 1, 9), FALSE,
                    Append(soFar, mahadasha), balDays, config)

calculateVimshottariDasha(siderealMoonLong, bJD) ==
    LET config == dashaDefinitions.VIMSHOTTARI
        nakInfo == getNakshatraInfo(siderealMoonLong)
        first == firstLordIndex(nakInfo)
        firstLordDuration == DurationAt(config.durations, first)
        balDays == balanceDays(balanceYears(nakInfo, firstLordDuration))
    IN  mdLoop(0, Num(bJD), first, TRUE, <<>>, balDays, config)

\* ------------------------------------------------- calculateDasha (App.jsx)
\* new Date((jd - 2440587.5) * 86400000).toLocaleDateString(): the date of
\* the instant written the way of the runtime's locale ("1/1/1990" in en-US,
\* "1.1.1990" in de-DE, "01/01/1990" in en-GB); "Invalid Date" for NaN. The
\* runtime's time zone, which decides the calendar day of instants near
\* midnight, is left at one value.
toLocaleDateString(jd) ==
    IF jd.nan THEN [invalid |-> TRUE]
    ELSE [format |-> locale, instant |-> jd.v]

\* The entries hold the lord, the renderings start and end and the duration;
\* the loop's tempJD and endJD and the exact years are kept beside them.
RECURSIVE appLoop(_, _, _, _, _)
appLoop(i, tempJD, soFar, currentLordIdx, firstDuration) ==
    IF i >= 9 THEN soFar
    ELSE LET idx == JsMod(currentLordIdx + i, 9)
             years == IF i = 0 THEN firstDuration
                      ELSE JsMul(DurationAt(dashaDurations, idx), Num(ArcDen))
             endJD == JsAdd(tempJD, JsMul(years, Num(TickScale)))
         IN  appLoop(i + 1, endJD,
                     Append(soFar, [lord |-> PlanetAt(dashaOrder, idx),
                                    start |-> toLocaleDateString(tempJD),
                                    end |-> toLocaleDateString(endJD),
                                    startJD |-> tempJD,
                                    endJD |-> endJD,
                                    years |-> years]),
                     currentLordIdx, firstDuration)

calculateDasha(mLong, bJD) ==
    LET nakIdx == (3 * mLong) \div ArcDen
        fraction == JsMod(3 * mLong, ArcDen)
        currentLordIdx == JsMod(nakIdx, 9)
        firstDuration == JsMul(DurationAt(dashaDurations, currentLordIdx),
                               Num(ArcDen - fraction))
    IN  appLoop(0, Num(bJD), <<>>, currentLordIdx, firstDuration)

\* ------------------------------------------------------- binary64 degrees
\* A degree value of _normalizeDegrees is [u, eps]: u/LonScale degree plus
\* eps * 2^-46 degree, |eps| small, so values are ordered by (u, eps).  The
\* u part is taken as exactly representable; eps is held to the spacing of
\* binary64 at the value's magnitude (2^-44 degree in [256, 512), 2^-45 in
\* [128, 256), at most 2^-46 below 128), rounding to nearest, ties to even.
FNum(u, e) == [u |-> u, eps |-> e]
FLess(a, b) == a.u < b.u \/ (a.u = b.u /\ a.eps < b.eps)
FAbs(a) == IF FLess(a, FNum(0, 0)) THEN FNum(-a.u, -a.eps) ELSE a

\* the spacing of binary64 at a, in units of 2^-46 degree
Ulp(a) ==
    LET m == FAbs(a)
    IN  IF FLess(m, FNum(128 * LonScale, 0)) THEN 1
        ELSE IF FLess(m, FNum(256 * LonScale, 0)) THEN 2
        ELSE IF FLess(m, FNum(512 * LonScale, 0)) THEN 4
        ELSE IF FLess(m, FNum(1024 * LonScale, 0)) THEN 8
        ELSE 16

\* e rounded to the nearest multiple of m, ties to the even multiple
RoundTo(e, m) ==
    LET q == e \div m
        r == e - q * m
    IN  IF 2 * r < m THEN q * m
        ELSE IF 2 * r > m THEN (q + 1) * m
        ELSE IF q % 2 = 0 THEN q * m ELSE (q + 1) * m

FRound(a) == FNum(a.u, RoundTo(a.eps, Ulp(a)))

\* a + b in binary64
FAdd(a, b) == FRound(FNum(a.u + b.u, a.eps + b.eps))

\* a % 360 in binary64: exact, with the sign of a
FMod360(a) ==
    LET d == JsMod(a.u, FullCircle)
    IN  IF d = 0 /\ a.u > 0 /\ a.eps < 0 THEN FNum(FullCircle, a.eps)
        ELSE IF d = 0 /\ a.u < 0 /\ a.eps > 0 THEN FNum(-FullCircle, a.eps)
        ELSE FNum(d, a.eps)

\* _normalizeDegrees of the core engine
_normalizeDegrees(deg) ==
    LET out == FMod360(deg)
    IN  IF FLess(out, FNum(0, 0)) THEN FAdd(out, FNum(FullCircle, 0)) ELSE out

\* normalize of the App.jsx engine
normalize(deg) ==
    LET out == FMod360(deg)
    IN  IF FLess(out, FNum(0, 0)) THEN FAdd(out, FNum(FullCircle, 0)) ELSE out

\* the binary64 arguments tried: whole degrees, and values next to zero
NormInputs ==
    {FNum(d * LonScale, 0) : d \in (-MaxDeg)..MaxDeg}
        \cup {FNum(0, e) : e \in (-MaxEps)..MaxEps}

\* ------------------------------------------------------------------ actions
\* the locales of the runtimes the App is opened in
Locales == {"en-US", "de-DE", "en-GB"}
DefaultLocale == "en-US"

NoTimeline == <<>>
NoResult == [none |-> TRUE]
NoCity == [none |-> TRUE]            \* useState(null)
NoPrompt == [kind |-> "none"]        \* before any triggerAi call
FZero == FNum(0, 0)

Init ==
    /\ dashaDefinitions = dashaDefinitionsInit
    /\ nakshatras = nakshatrasInit
    /\ dashaDurations = dashaDurationsInit
    /\ dashaOrder = dashaOrderInit
    /\ op = "idle"
    /\ moonLong = 0
    /\ birthJD = 0
    /\ timeline = NoTimeline
    /\ appTimeline = NoTimeline
    /\ scheme = "VIMSHOTTARI"
    /\ subLord = Undefined
    /\ subDays = 0
    /\ ads = NoTimeline
    /\ normIn = FZero
    /\ normOut = FZero
    /\ error = "none"
    /\ lonIn = 0
    /\ nakOut = NoResult
    /\ civil = NoResult
    /\ jdOut = NoResult
    /\ date = NoResult
    /\ panSun = FZero
    /\ panMoon = FZero
    /\ panJD = NoResult
    /\ panchang = NoResult
    /\ sidIn = FZero
    /\ sidOut = FZero
    /\ locale = DefaultLocale
    /\ prev = NoResult
    /\ queryIn = NoResult
    /\ filterIn = NoResult
    /\ cityOut = NoResult
    /\ selectedCity = NoCity
    /\ query = <<>>
    /\ searchResults = <<>>
    /\ aiResponse = "Veda Engine initialized. Deploying geospatial sync..."
    /\ loading = FALSE
    /\ input = ""
    /\ calls = 0
    /\ requests = <<>>
    /\ lastPrompt = NoPrompt
    /\ shownFor = 0

Longitudes == 0..(FullCircle - 1)
BirthJDs == {0, MaxBirthJD}

CallVimshottariOn(lons) ==
    /\ op = "idle"
    /\ \E lon \in lons, jd \in BirthJDs :
        /\ op' = "calculateVimshottariDasha"
        /\ moonLong' = lon
        /\ birthJD' = jd
        /\ timeline' = calculateVimshottariDasha(lon, jd)
        /\ appTimeline' = NoTimeline
        /\ scheme' = "VIMSHOTTARI" /\ subLord' = Undefined /\ subDays' = 0
        /\ ads' = NoTimeline
        /\ normIn' = FZero /\ normOut' = FZero
        /\ UNCHANGED <<tables, calVars, pureVars, geoVars, chatVars>>

CallVimshottari == CallVimshottariOn(Longitudes)

CallDashaOn(lons) ==
    /\ op = "idle"
    /\ \E lon \in lons, jd \in BirthJDs :
        /\ op' = "calculateDasha"
        /\ moonLong' = lon
        /\ birthJD' = jd
        /\ appTimeline' = calculateDasha(lon, jd)
        /\ timeline' = NoTimeline
        /\ scheme' = "VIMSHOTTARI" /\ subLord' = Undefined /\ subDays' = 0
        /\ ads' = NoTimeline
        /\ normIn' = FZero /\ normOut' = FZero
        /\ UNCHANGED <<tables, calVars, pureVars, geoVars, chatVars>>

CallDasha == CallDashaOn(Longitudes)

\* _calculateAntardashas called with one of the engine's configs, a lord of
\* that config and a period of whole years
CallAntardashas ==
    /\ op = "idle"
    /\ \E s \in Schemes, jd \in BirthJDs, years \in 1..MaxSubYears :
       \E k \in 1..Len(dashaDefinitions[s].planets) :
            /\ op' = "_calculateAntardashas"
            /\ scheme' = s
            /\ subLord' = dashaDefinitions[s].planets[k]
            /\ birthJD' = jd
            /\ subDays' = years * SIDEREAL_YEAR
            /\ ads' = _calculateAntardashas(dashaDefinitions[s].planets[k], Num(jd),
                                            Num(years * SIDEREAL_YEAR), dashaDefinitions[s])
            /\ moonLong' = 0
            /\ timeline' = NoTimeline /\ appTimeline' = NoTimeline
            /\ normIn' = FZero /\ normOut' = FZero
            /\ UNCHANGED <<tables, calVars, pureVars, geoVars, chatVars>>

CallNormalizeDegrees ==
    /\ op = "idle"
    /\ \E x \in NormInputs :
        /\ op' = "_normalizeDegrees"
        /\ normIn' = x
        /\ normOut' = _normalizeDegrees(x)
        /\ moonLong' = 0 /\ birthJD' = 0
        /\ timeline' = NoTimeline /\ appTimeline' = NoTimeline
        /\ scheme' = "VIMSHOTTARI" /\ subLord' = Undefined /\ subDays' = 0
        /\ ads' = NoTimeline
        /\ UNCHANGED <<tables, calVars, pureVars, geoVars, chatVars>>

CallNormalize ==
    /\ op = "idle"
    /\ \E x \in NormInputs :
        /\ op' = "normalize"
        /\ normIn' = x
        /\ normOut' = normalize(x)
        /\ moonLong' = 0 /\ birthJD' = 0
        /\ timeline' = NoTimeline /\ appTimeline' = NoTimeline
        /\ scheme' = "VIMSHOTTARI" /\ subLord' = Undefined /\ subDays' = 0
        /\ ads' = NoTimeline
        /\ UNCHANGED <<tables, calVars, pureVars, geoVars, chatVars>>

\* the caller is done with the result: nothing of a call outlives it
\* ------------------------------------------- Dasha calls on other arguments
\* The Moon longitude as a JS value: a number outside [0, 360), NaN, or
\* undefined, which every operation of the code on it turns into NaN.
MalformedLongitudes ==
    {NaN, [nan |-> TRUE, v |-> 0, undefined |-> TRUE]}
        \cup {Num(x) : x \in (-ArcDen)..(-1)}
        \cup {Num(x) : x \in FullCircle..(FullCircle + ArcDen)}

\* calculateVimshottariDasha when nakInfo.index is NaN: firstLordIndex and
\* lordIdx = (lordIdx + 1) % 9 stay NaN, config.planets[NaN] and
\* config.durations[NaN] are undefined, balanceDays and
\* fullDurationYears * SIDEREAL_YEAR are NaN
RECURSIVE mdLoopNaN(_, _, _, _)
mdLoopNaN(i, currentJD, soFar, config) ==
    IF i >= 9 THEN soFar
    ELSE LET lord == Undefined
             days == NaN
             mahadasha == [lord |-> lord,
                           startJD |-> currentJD,
                           endJD |-> JsAdd(currentJD, days),
                           antardashas |-> _calculateAntardashas(lord, currentJD, days, config)]
         IN  mdLoopNaN(i + 1, advanceJD(currentJD, days), Append(soFar, mahadasha),
                       config)

calculateVimshottariDashaOf(x, bJD) ==
    IF x.nan THEN mdLoopNaN(0, Num(bJD), <<>>, dashaDefinitions.VIMSHOTTARI)
    ELSE calculateVimshottariDasha(x.v, bJD)

\* calculateDasha: years.toFixed(1) throws a TypeError when years, which is
\* this.dashaDurations[idx] from the second period on, is undefined
calculateDashaThrows(x) ==
    \/ x.nan
    \/ \E i \in 1..8 :
           DurationAt(dashaDurations,
                      JsMod(JsMod((3 * x.v) \div ArcDen, 9) + i, 9)).nan

calculateDashaOf(x, bJD) ==
    IF calculateDashaThrows(x) THEN NoTimeline ELSE calculateDasha(x.v, bJD)

CallVimshottariMalformed ==
    /\ op = "idle"
    /\ \E x \in MalformedLongitudes, jd \in BirthJDs :
        /\ op' = "calculateVimshottariDasha (malformed)"
        /\ moonLong' = x
        /\ birthJD' = jd
        /\ timeline' = calculateVimshottariDashaOf(x, jd)
        /\ UNCHANGED <<appTimeline, scheme, subLord, subDays, ads, normIn, normOut>>
        /\ UNCHANGED <<tables, calVars, pureVars, geoVars, chatVars>>

CallDashaMalformed ==
    /\ op = "idle"
    /\ \E x \in MalformedLongitudes, jd \in BirthJDs :
        /\ op' = "calculateDasha (malformed)"
        /\ moonLong' = x
        /\ birthJD' = jd
        /\ appTimeline' = calculateDashaOf(x, jd)
        /\ error' = IF calculateDashaThrows(x) THEN "TypeError" ELSE "none"
        /\ UNCHANGED <<timeline, scheme, subLord, subDays, ads, normIn, normOut>>
        /\ UNCHANGED <<lonIn, nakOut, civil, jdOut, date, panSun, panMoon, panJD,
                       panchang, sidIn, sidOut>>
        /\ UNCHANGED <<tables, pureVars, geoVars, chatVars>>

ResetCall ==
    /\ op' = "idle"
    /\ moonLong' = 0 /\ birthJD' = 0
    /\ timeline' = NoTimeline /\ appTimeline' = NoTimeline
    /\ scheme' = "VIMSHOTTARI" /\ subLord' = Undefined /\ subDays' = 0
    /\ ads' = NoTimeline
    /\ normIn' = FZero /\ normOut' = FZero
    /\ error' = "none" /\ lonIn' = 0 /\ nakOut' = NoResult
    /\ civil' = NoResult /\ jdOut' = NoResult /\ date' = NoResult
    /\ panSun' = FZero /\ panMoon' = FZero /\ panJD' = NoResult
    /\ panchang' = NoResult
    /\ sidIn' = FZero /\ sidOut' = FZero
    /\ queryIn' = NoResult /\ filterIn' = NoResult /\ cityOut' = NoResult

Return ==
    /\ op # "idle"
    /\ ResetCall
    /\ UNCHANGED <<tables, pureVars, chatVars>>

Next ==
    \/ CallVimshottari
    \/ CallDasha
    \/ CallAntardashas
    \/ CallNormalizeDegrees
    \/ CallNormalize
    \/ CallVimshottariMalformed
    \/ CallDashaMalformed
    \/ Return

Spec == Init /\ [][Next]_vars

\* ============================================================= purity part
\* The same Dasha calls made again in a runtime whose locale may have
\* changed, the earlier call and its result being kept.
PureLongitudes == {0, (3202 * LonScale) \div 10, FullCircle - 1}

\* the page is opened in another runtime
SetLocale ==
    /\ op = "idle"
    /\ locale' \in Locales \ {locale}
    /\ UNCHANGED <<tables, op, dashaVars, calVars, prev, geoVars, chatVars>>

\* the caller keeps what the call returned
KeepResult ==
    /\ op \in {"calculateVimshottariDasha", "calculateDasha"}
    /\ prev' = [op |-> op, moonLong |-> moonLong, birthJD |-> birthJD,
                timeline |-> timeline, appTimeline |-> appTimeline]
    /\ ResetCall
    /\ UNCHANGED <<tables, locale, chatVars>>

PureNext ==
    \/ CallVimshottariOn(PureLongitudes)
    \/ CallDashaOn(PureLongitudes)
    \/ SetLocale
    \/ KeepResult

PureSpec == Init /\ [][PureNext]_vars

\* =========================================================== calendar part
\* getNakshatraInfo, calculateJulianDay, JulianConverter.toDate,
\* calculatePanchang and computeSiderealLongitude, under their own
\* specification CalSpec.

\* ------------------------------------- getNakshatraInfo (astronomy_engine.js)
\* the earlier file returns the remaining arc itself (tripled here), not
\* fractionConsumed
engineGetNakshatraInfo(siderealMoonLong) ==
    LET nakIndex == (3 * siderealMoonLong) \div ArcDen
        rem3 == JsMod(3 * siderealMoonLong, ArcDen)
    IN  [index |-> nakIndex,
         name |-> PlanetAt(nakshatras, nakIndex),
         pada |-> ((4 * rem3) \div ArcDen) + 1,
         longitudeInNakshatra |-> rem3,
         totalLongitude |-> siderealMoonLong]

\* the longitudes tried: [0, 360) and one nakshatra arc on either side
NakInputs == (-ArcDen)..(FullCircle + ArcDen)

CallNakshatra ==
    /\ op = "idle"
    /\ \E lon \in NakInputs :
        /\ op' = "getNakshatraInfo"
        /\ lonIn' = lon
        /\ nakOut' = getNakshatraInfo(lon)
        /\ UNCHANGED <<error, civil, jdOut, date, panSun, panMoon, panJD, panchang,
                       sidIn, sidOut>>
        /\ UNCHANGED <<tables, dashaVars, pureVars, geoVars, chatVars>>

CallEngineNakshatra ==
    /\ op = "idle"
    /\ \E lon \in NakInputs :
        /\ op' = "engineGetNakshatraInfo"
        /\ lonIn' = lon
        /\ nakOut' = engineGetNakshatraInfo(lon)
        /\ UNCHANGED <<error, civil, jdOut, date, panSun, panMoon, panJD, panchang,
                       sidIn, sidOut>>
        /\ UNCHANGED <<tables, dashaVars, pureVars, geoVars, chatVars>>

\* ------------------------------------------------------- calculateJulianDay
\* A Date value is kept as a day number since 1970-01-01 and a second of that
\* day; a Julian Day as the day number jdn and the second sod of the UTC
\* day, standing for jdn + (sod - 43200) / 86400.
SecPerHour == 3600
SecPerMin == 60
SecPerDay == 24 * SecPerHour

\* MakeDay of ECMAScript: the day number of a proleptic Gregorian date
daysFromCivil(yr, mon, dom) ==
    LET yy == IF mon <= 2 THEN yr - 1 ELSE yr
        era == yy \div 400
        yoe == yy - era * 400
        mp == IF mon > 2 THEN mon - 3 ELSE mon + 9
        doy == (153 * mp + 2) \div 5 + dom - 1
        doe == yoe * 365 + yoe \div 4 - yoe \div 100 + doy
    IN  era * 146097 + doe - 719468

\* YearFromTime, MonthFromTime and DateFromTime of ECMAScript
civilFromDays(dayNum) ==
    LET zz == dayNum + 719468
        era == zz \div 146097
        doe == zz - era * 146097
        yoe == (doe - doe \div 1460 + doe \div 36524 - doe \div 146096) \div 365
        doy == doe - (365 * yoe + yoe \div 4 - yoe \div 100)
        mp == (5 * doy + 2) \div 153
        mon == IF mp < 10 THEN mp + 3 ELSE mp - 9
    IN  [year |-> yoe + era * 400 + (IF mon <= 2 THEN 1 ELSE 0),
         month |-> mon,
         day |-> doy - (153 * mp + 2) \div 5 + 1]

\* Date.UTC(year, month, day, hour, minute, second), month counted from 0:
\* a year in 0..99 stands for 1900 + year, and fields out of range carry over
DateUTC(year, month, day, hour, minute, second) ==
    LET yr == IF year \in 0..99 THEN 1900 + year ELSE year
        ym == yr + (month \div 12)
        mn == month % 12
        secs == hour * SecPerHour + minute * SecPerMin + second
    IN  [day |-> daysFromCivil(ym, mn + 1, 1) + day - 1 + (secs \div SecPerDay),
         sod |-> secs % SecPerDay]

\* date.setMilliseconds(date.getMilliseconds() - tzOffsetHours * 3600000),
\* the offset counted in seconds
shiftDate(t, tzSec) ==
    [day |-> t.day + ((t.sod - tzSec) \div SecPerDay),
     sod |-> (t.sod - tzSec) % SecPerDay]

calculateJulianDay(c) ==
    LET t == shiftDate(DateUTC(c.year, c.month - 1, c.day, c.hour, c.minute,
                               c.second), c.tz)
        ut == civilFromDays(t.day)
        utYear == ut.year
        utMonth == ut.month
        utDay == ut.day
        a == (14 - utMonth) \div 12
        y == utYear + 4800 - a
        m == utMonth + 12 * a - 3
    IN  [jdn |-> utDay + ((153 * m + 2) \div 5) + 365 * y + (y \div 4)
                       - (y \div 100) + (y \div 400) - 32045,
         sod |-> t.sod]

\* validateInput of astronomy_engine.js: the message of the Error thrown, or
\* "none"
validateInput(year, month, day) ==
    IF year < -5000 \/ year > 5000 THEN "Year out of computable range."
    ELSE IF month < 1 \/ month > 12 THEN "Invalid month."
    ELSE IF day < 1 \/ day > 31 THEN "Invalid day."
    ELSE "none"

\* ---------------------------------------------------- JulianConverter.toDate
\* year, month and day of toDate; (z - 1867216.25) / 36524.25,
\* (b - 122.1) / 365.25, 365.25 * c, (b - d) / 30.6001 and 30.6001 * e as
\* quotients of integers
toDateYMD(z) ==
    LET alpha == (4 * z - 7468865) \div 146097
        a == IF z < 2299161 THEN z ELSE z + 1 + alpha - (alpha \div 4)
        b == a + 1524
        c == (20 * b - 2442) \div 7305
        d == (1461 * c) \div 4
        e == (10000 * (b - d)) \div 306001
        month == IF e < 14 THEN e - 1 ELSE e - 13
    IN  [year |-> IF month > 2 THEN c - 4716 ELSE c - 4715,
         month |-> month,
         day |-> b - d - ((306001 * e) \div 10000)]

\* toDate of the core engine. f = (jd + 0.5) - z is the binary64 value next
\* to sod / 86400: under says that it lies below it (-1) or not (0), which
\* the floors of hours and mins see on a minute boundary. A fraction that is
\* a multiple of 1/128 day (DyadicSecs seconds) is exact in binary64, and so
\* are the hours, mins and secs computed from it.
DyadicSecs == SecPerDay \div 128
toDate(j, under) ==
    LET ymd == toDateYMD(j.jdn)
        u == j.sod + under
    IN  [year |-> ymd.year, month |-> ymd.month, day |-> ymd.day,
         hour |-> u \div SecPerHour,
         minute |-> (u % SecPerHour) \div SecPerMin,
         second |-> (u % SecPerMin) - under]

\* toDate of astronomy_engine.js: day keeps the fraction f
engineToDate(j) ==
    LET ymd == toDateYMD(j.jdn)
    IN  [year |-> ymd.year, month |-> ymd.month,
         day |-> [int |-> ymd.day, sod |-> j.sod]]

\* the civil times tried. Dates at noon UTC: years at and around the ends of
\* the supported range, the two-digit years and the calendar reform, with
\* months and days inside and outside their ranges
NoonYears == {-5001, -5000, -4713, -1, 0, 50, 99, 100, 1582, 1990, 2000, 5000, 5001}
NoonMonths == 0..13
NoonDays == {0, 1, 15, 28, 29, 31, 32}
NoonInputs ==
    { [year |-> yr, month |-> mon, day |-> dom, hour |-> 12, minute |-> 0,
       second |-> 0, tz |-> 0] :
      yr \in NoonYears, mon \in NoonMonths, dom \in NoonDays }

\* times of day at a few dates, under the offsets -5 h, 0 and +5.5 h (the
\* default), some of which cross a day, month or year boundary
ClockDates ==
    { <<1990, 5, 15>>, <<2000, 1, 1>>, <<1999, 12, 31>>, <<2000, 2, 29>>,
      <<2000, 3, 1>>, <<1582, 10, 15>>, <<99, 12, 31>>, <<100, 1, 1>>,
      <<-5000, 1, 1>>, <<5000, 12, 31>> }
ClockHours == {0, 4, 10, 12, 23}
ClockMinutes == {0, 30, 59}
ClockSeconds == {0, 1, 59}
TzOffsets == {-18000, 0, 19800}
ClockInputs ==
    { [year |-> ymd[1], month |-> ymd[2], day |-> ymd[3], hour |-> hh,
       minute |-> mm, second |-> ss, tz |-> tzSec] :
      ymd \in ClockDates, hh \in ClockHours, mm \in ClockMinutes,
      ss \in ClockSeconds, tzSec \in TzOffsets }

CivilInputs == NoonInputs \cup ClockInputs

CallJulianDay ==
    /\ op = "idle"
    /\ \E c \in CivilInputs :
        /\ op' = "calculateJulianDay"
        /\ civil' = c
        /\ jdOut' = calculateJulianDay(c)
        /\ UNCHANGED <<error, lonIn, nakOut, date, panSun, panMoon, panJD,
                       panchang, sidIn, sidOut>>
        /\ UNCHANGED <<tables, dashaVars, pureVars, geoVars, chatVars>>

CallValidateInput ==
    /\ op = "idle"
    /\ \E c \in NoonInputs :
        /\ op' = "validateInput"
        /\ civil' = c
        /\ error' = validateInput(c.year, c.month, c.day)
        /\ UNCHANGED <<lonIn, nakOut, jdOut, date, panSun, panMoon, panJD,
                       panchang, sidIn, sidOut>>
        /\ UNCHANGED <<tables, dashaVars, pureVars, geoVars, chatVars>>

\* JulianConverter.toDate applied to the Julian Day just computed
CallToDate ==
    /\ op = "calculateJulianDay"
    /\ \E under \in {-1, 0} :
        /\ under = -1 => jdOut.sod % DyadicSecs # 0
        /\ op' = "toDate"
        /\ date' = toDate(jdOut, under)
        /\ UNCHANGED <<error, lonIn, nakOut, civil, jdOut, panSun, panMoon, panJD,
                       panchang, sidIn, sidOut>>
        /\ UNCHANGED <<tables, dashaVars, pureVars, geoVars, chatVars>>

CallEngineToDate ==
    /\ op = "calculateJulianDay"
    /\ op' = "engineToDate"
    /\ date' = engineToDate(jdOut)
    /\ UNCHANGED <<error, lonIn, nakOut, civil, jdOut, panSun, panMoon, panJD,
                   panchang, sidIn, sidOut>>
    /\ UNCHANGED <<tables, dashaVars, pureVars, geoVars, chatVars>>

\* ------------------------------------------------ calculatePanchang (App.jsx)
\* a - b in binary64
FSub(a, b) == FAdd(a, FNum(-b.u, -b.eps))

\* Math.floor(x / n) for a binary64 degree value x and n > 0 in 1/LonScale
\* degree: a value just under a multiple of n floors to the quotient below
FFloorDiv(x, n) ==
    IF x.u % n = 0 /\ x.eps < 0 THEN (x.u \div n) - 1 ELSE x.u \div n

\* Math.floor(x / this.NAKSHATRA_ARC), the arc being ArcNum / 3 degrees
FFloorArc(x) ==
    IF (3 * x.u) % ArcDen = 0 /\ x.eps < 0 THEN ((3 * x.u) \div ArcDen) - 1
    ELSE (3 * x.u) \div ArcDen

weekdays == <<"Sunday", "Monday", "Tuesday", "Wednesday", "Thursday", "Friday",
              "Saturday">>

\* Math.floor(jd + 1.5) of the Julian Day jdn + (sod - 43200) / 86400
floorJDPlus(j) == j.jdn + 1 + (j.sod \div SecPerDay)

\* the _uncapped variant returns the tithi as computed
calculatePanchang_uncapped(sLong, mLong, j) ==
    LET diff == normalize(FSub(mLong, sLong))
        tithi == FFloorDiv(diff, 12 * LonScale) + 1
        nakIdx == FFloorArc(mLong)
        yogaLong == normalize(FAdd(sLong, mLong))
        yogaIdx == FFloorArc(yogaLong)
        dayIdx == JsMod(floorJDPlus(j), 7)
    IN  [tithi |-> tithi,
         nakshatra |-> PlanetAt(nakshatras, JsMod(nakIdx, 27)),
         weekday |-> PlanetAt(weekdays, dayIdx),
         yoga |-> yogaIdx + 1]

calculatePanchang(sLong, mLong, j) ==
    LET diff == normalize(FSub(mLong, sLong))
        tithi == FFloorDiv(diff, 12 * LonScale) + 1
        nakIdx == FFloorArc(mLong)
        yogaLong == normalize(FAdd(sLong, mLong))
        yogaIdx == FFloorArc(yogaLong)
        dayIdx == JsMod(floorJDPlus(j), 7)
    IN  [tithi |-> IF tithi > 30 THEN 30 ELSE tithi,
         nakshatra |-> PlanetAt(nakshatras, JsMod(nakIdx, 27)),
         weekday |-> PlanetAt(weekdays, dayIdx),
         yoga |-> yogaIdx + 1]

\* the arguments tried. Longitudes: every sixth degree from two steps below
\* 0 to two turns, the scenario's 255.5 and 320.2, and Sun longitudes next
\* to zero; Julian Days: the scenario's 2447893.0, days around 0 and a week
\* from J2000, at the start, the middle and the end of the UTC day
PanStep == 6
PanGrid == {FNum(k * PanStep * LonScale, 0) : k \in -2..120}
ScenarioSun == FNum((2555 * LonScale) \div 10, 0)
ScenarioMoon == FNum((3202 * LonScale) \div 10, 0)
ScenarioJD == [jdn |-> 2447893, sod |-> 43200]
PanSuns == PanGrid \cup {ScenarioSun} \cup {FNum(0, e) : e \in (-MaxEps)..MaxEps}
PanMoons == PanGrid \cup {ScenarioMoon}
PanJDs ==
    { [jdn |-> n, sod |-> sec] :
      n \in (-9..9) \cup (2451545..2451552),
      sec \in {0, 43199, 43200, 86399} } \cup {ScenarioJD}
PanInputs ==
    { <<sn, mn, ScenarioJD>> : sn \in PanSuns, mn \in PanMoons }
        \cup { <<ScenarioSun, ScenarioMoon, j>> : j \in PanJDs }

CallPanchang ==
    /\ op = "idle"
    /\ \E x \in PanInputs :
        /\ op' = "calculatePanchang"
        /\ panSun' = x[1]
        /\ panMoon' = x[2]
        /\ panJD' = x[3]
        /\ panchang' = calculatePanchang(x[1], x[2], x[3])
        /\ UNCHANGED <<error, lonIn, nakOut, civil, jdOut, date, sidIn, sidOut>>
        /\ UNCHANGED <<tables, dashaVars, pureVars, geoVars, chatVars>>

\* --------------------------------------------------- computeSiderealLongitude
\* The argument is siderealLong = tropicalLong - getLahiriAyanamsa(jd) as
\* both files compute it before they normalize: the ayanamsa,
\* 23.85710278 + (50.27 / 3600) * t, moves the tropical longitude by a
\* binary64 amount, and every value tried below is such a difference.

\* the core engine: this._normalizeDegrees(siderealLong)
computeSiderealLongitude(siderealLong) == _normalizeDegrees(siderealLong)

\* astronomy_engine.js: while (siderealLong < 0) siderealLong += 360
RECURSIVE whileNegative(_)
whileNegative(siderealLong) ==
    IF FLess(siderealLong, FNum(0, 0))
    THEN whileNegative(FAdd(siderealLong, FNum(FullCircle, 0)))
    ELSE siderealLong

\* astronomy_engine.js: while (siderealLong >= 360) siderealLong -= 360
RECURSIVE whileFullTurn(_)
whileFullTurn(siderealLong) ==
    IF ~FLess(siderealLong, FNum(FullCircle, 0))
    THEN whileFullTurn(FSub(siderealLong, FNum(FullCircle, 0)))
    ELSE siderealLong

engineComputeSiderealLongitude(siderealLong) ==
    whileFullTurn(whileNegative(siderealLong))

CallSidereal ==
    /\ op = "idle"
    /\ \E x \in NormInputs :
        /\ op' = "computeSiderealLongitude"
        /\ sidIn' = x
        /\ sidOut' = computeSiderealLongitude(x)
        /\ UNCHANGED <<error, lonIn, nakOut, civil, jdOut, date, panSun, panMoon,
                       panJD, panchang>>
        /\ UNCHANGED <<tables, dashaVars, pureVars, geoVars, chatVars>>

CallEngineSidereal ==
    /\ op = "idle"
    /\ \E x \in NormInputs :
        /\ op' = "engineComputeSiderealLongitude"
        /\ sidIn' = x
        /\ sidOut' = engineComputeSiderealLongitude(x)
        /\ UNCHANGED <<error, lonIn, nakOut, civil, jdOut, date, panSun, panMoon,
                       panJD, panchang>>
        /\ UNCHANGED <<tables, dashaVars, pureVars, geoVars, chatVars>>

CalNext ==
    \/ CallNakshatra
    \/ CallEngineNakshatra
    \/ CallJulianDay
    \/ CallValidateInput
    \/ CallToDate
    \/ CallEngineToDate
    \/ CallPanchang
    \/ CallSidereal
    \/ CallEngineSidereal
    \/ Return

CalSpec == Init /\ [][CalNext]_vars

\* ================================================================ GeoEngine
\* Strings are sequences of characters, so that trim, toLowerCase and includes
\* are computed.
states ==
    << <<"A", "n", "d", "h", "r", "a", " ", "P", "r", "a", "d", "e", "s", "h">>,
       <<"A", "r", "u", "n", "a", "c", "h", "a", "l", " ", "P", "r", "a", "d", "e", "s", "h">>,
       <<"A", "s", "s", "a", "m">>,
       <<"B", "i", "h", "a", "r">>,
       <<"C", "h", "h", "a", "t", "t", "i", "s", "g", "a", "r", "h">>,
       <<"G", "o", "a">>,
       <<"G", "u", "j", "a", "r", "a", "t">>,
       <<"H", "a", "r", "y", "a", "n", "a">>,
       <<"H", "i", "m", "a", "c", "h", "a", "l", " ", "P", "r", "a", "d", "e", "s", "h">>,
       <<"J", "h", "a", "r", "k", "h", "a", "n", "d">>,
       <<"K", "a", "r", "n", "a", "t", "a", "k", "a">>,
       <<"K", "e", "r", "a", "l", "a">>,
       <<"M", "a", "d", "h", "y", "a", " ", "P", "r", "a", "d", "e", "s", "h">>,
       <<"M", "a", "h", "a", "r", "a", "s", "h", "t", "r", "a">>,
       <<"M", "a", "n", "i", "p", "u", "r">>,
       <<"M", "e", "g", "h", "a", "l", "a", "y", "a">>,
       <<"M", "i", "z", "o", "r", "a", "m">>,
       <<"N", "a", "g", "a", "l", "a", "n", "d">>,
       <<"O", "d", "i", "s", "h", "a">>,
       <<"P", "u", "n", "j", "a", "b">>,
       <<"R", "a", "j", "a", "s", "t", "h", "a", "n">>,
       <<"S", "i", "k", "k", "i", "m">>,
       <<"T", "a", "m", "i", "l", " ", "N", "a", "d", "u">>,
       <<"T", "e", "l", "a", "n", "g", "a", "n", "a">>,
       <<"T", "r", "i", "p", "u", "r", "a">>,
       <<"U", "t", "t", "a", "r", " ", "P", "r", "a", "d", "e", "s", "h">>,
       <<"U", "t", "t", "a", "r", "a", "k", "h", "a", "n", "d">>,
       <<"W", "e", "s", "t", " ", "B", "e", "n", "g", "a", "l">>,
       <<"A", "n", "d", "a", "m", "a", "n", " ", "a", "n", "d", " ", "N", "i", "c", "o", "b", "a", "r", " ", "I", "s", "l", "a", "n", "d", "s">>,
       <<"C", "h", "a", "n", "d", "i", "g", "a", "r", "h">>,
       <<"D", "a", "d", "r", "a", " ", "a", "n", "d", " ", "N", "a", "g", "a", "r", " ", "H", "a", "v", "e", "l", "i", " ", "a", "n", "d", " ", "D", "a", "m", "a", "n", " ", "a", "n", "d", " ", "D", "i", "u">>,
       <<"D", "e", "l", "h", "i">>,
       <<"J", "a", "m", "m", "u", " ", "a", "n", "d", " ", "K", "a", "s", "h", "m", "i", "r">>,
       <<"L", "a", "d", "a", "k", "h">>,
       <<"L", "a", "k", "s", "h", "a", "d", "w", "e", "e", "p">>,
       <<"P", "u", "d", "u", "c", "h", "e", "r", "r", "y">> >>

rawData ==
    << [name |-> <<"M", "u", "m", "b", "a", "i">>,
        stateIdx |-> 13, lat |-> 190760, lon |-> 728777,
        aliases |-> <<<<"B", "o", "m", "b", "a", "y">>>>],
       [name |-> <<"D", "e", "l", "h", "i">>,
        stateIdx |-> 31, lat |-> 286139, lon |-> 772090,
        aliases |-> <<<<"N", "e", "w", " ", "D", "e", "l", "h", "i">>, <<"N", "C", "R">>>>],
       [name |-> <<"B", "e", "n", "g", "a", "l", "u", "r", "u">>,
        stateIdx |-> 10, lat |-> 129716, lon |-> 775946,
        aliases |-> <<<<"B", "a", "n", "g", "a", "l", "o", "r", "e">>>>],
       [name |-> <<"H", "y", "d", "e", "r", "a", "b", "a", "d">>,
        stateIdx |-> 23, lat |-> 173850, lon |-> 784867,
        aliases |-> <<>>],
       [name |-> <<"A", "h", "m", "e", "d", "a", "b", "a", "d">>,
        stateIdx |-> 6, lat |-> 230225, lon |-> 725714,
        aliases |-> <<>>],
       [name |-> <<"C", "h", "e", "n", "n", "a", "i">>,
        stateIdx |-> 22, lat |-> 130827, lon |-> 802707,
        aliases |-> <<<<"M", "a", "d", "r", "a", "s">>>>],
       [name |-> <<"K", "o", "l", "k", "a", "t", "a">>,
        stateIdx |-> 27, lat |-> 225726, lon |-> 883639,
        aliases |-> <<<<"C", "a", "l", "c", "u", "t", "t", "a">>>>],
       [name |-> <<"S", "u", "r", "a", "t">>,
        stateIdx |-> 6, lat |-> 211702, lon |-> 728311,
        aliases |-> <<>>],
       [name |-> <<"P", "u", "n", "e">>,
        stateIdx |-> 13, lat |-> 185204, lon |-> 738567,
        aliases |-> <<>>],
       [name |-> <<"J", "a", "i", "p", "u", "r">>,
        stateIdx |-> 20, lat |-> 269124, lon |-> 757873,
        aliases |-> <<>>],
       [name |-> <<"L", "u", "c", "k", "n", "o", "w">>,
        stateIdx |-> 25, lat |-> 268467, lon |-> 809462,
        aliases |-> <<>>],
       [name |-> <<"K", "a", "n", "p", "u", "r">>,
        stateIdx |-> 25, lat |-> 264499, lon |-> 803319,
        aliases |-> <<>>],
       [name |-> <<"N", "a", "g", "p", "u", "r">>,
        stateIdx |-> 13, lat |-> 211458, lon |-> 790882,
        aliases |-> <<>>],
       [name |-> <<"I", "n", "d", "o", "r", "e">>,
        stateIdx |-> 12, lat |-> 227196, lon |-> 758577,
        aliases |-> <<>>],
       [name |-> <<"T", "h", "a", "n", "e">>,
        stateIdx |-> 13, lat |-> 192183, lon |-> 729781,
        aliases |-> <<>>],
       [name |-> <<"B", "h", "o", "p", "a", "l">>,
        stateIdx |-> 12, lat |-> 232599, lon |-> 774126,
        aliases |-> <<>>],
       [name |-> <<"V", "i", "s", "a", "k", "h", "a", "p", "a", "t", "n", "a", "m">>,
        stateIdx |-> 0, lat |-> 176868, lon |-> 832185,
        aliases |-> <<<<"V", "i", "z", "a", "g">>>>],
       [name |-> <<"P", "i", "m", "p", "r", "i", "-", "C", "h", "i", "n", "c", "h", "w", "a", "d">>,
        stateIdx |-> 13, lat |-> 186298, lon |-> 737997,
        aliases |-> <<>>],
       [name |-> <<"P", "a", "t", "n", "a">>,
        stateIdx |-> 3, lat |-> 255941, lon |-> 851376,
        aliases |-> <<>>],
       [name |-> <<"V", "a", "d", "o", "d", "a", "r", "a">>,
        stateIdx |-> 6, lat |-> 223072, lon |-> 731812,
        aliases |-> <<<<"B", "a", "r", "o", "d", "a">>>>],
       [name |-> <<"G", "h", "a", "z", "i", "a", "b", "a", "d">>,
        stateIdx |-> 25, lat |-> 286692, lon |-> 774538,
        aliases |-> <<>>],
       [name |-> <<"L", "u", "d", "h", "i", "a", "n", "a">>,
        stateIdx |-> 19, lat |-> 309010, lon |-> 758573,
        aliases |-> <<>>],
       [name |-> <<"A", "g", "r", "a">>,
        stateIdx |-> 25, lat |-> 271767, lon |-> 780081,
        aliases |-> <<>>],
       [name |-> <<"N", "a", "s", "h", "i", "k">>,
        stateIdx |-> 13, lat |-> 199975, lon |-> 737898,
        aliases |-> <<>>],
       [name |-> <<"F", "a", "r", "i", "d", "a", "b", "a", "d">>,
        stateIdx |-> 7, lat |-> 284089, lon |-> 773178,
        aliases |-> <<>>],
       [name |-> <<"M", "e", "e", "r", "u", "t">>,
        stateIdx |-> 25, lat |-> 289845, lon |-> 777064,
        aliases |-> <<>>],
       [name |-> <<"R", "a", "j", "k", "o", "t">>,
        stateIdx |-> 6, lat |-> 223039, lon |-> 708022,
        aliases |-> <<>>],
       [name |-> <<"K", "a", "l", "y", "a", "n", "-", "D", "o", "m", "b", "i", "v", "l", "i">>,
        stateIdx |-> 13, lat |-> 192403, lon |-> 731305,
        aliases |-> <<>>],
       [name |-> <<"V", "a", "s", "a", "i", "-", "V", "i", "r", "a", "r">>,
        stateIdx |-> 13, lat |-> 193919, lon |-> 728397,
        aliases |-> <<>>],
       [name |-> <<"V", "a", "r", "a", "n", "a", "s", "i">>,
        stateIdx |-> 25, lat |-> 253176, lon |-> 829739,
        aliases |-> <<<<"B", "e", "n", "a", "r", "e", "s">>, <<"K", "a", "s", "h", "i">>>>],
       [name |-> <<"S", "r", "i", "n", "a", "g", "a", "r">>,
        stateIdx |-> 32, lat |-> 340837, lon |-> 747973,
        aliases |-> <<>>],
       [name |-> <<"A", "u", "r", "a", "n", "g", "a", "b", "a", "d">>,
        stateIdx |-> 13, lat |-> 198762, lon |-> 753433,
        aliases |-> <<<<"S", "a", "m", "b", "h", "a", "j", "i", "n", "a", "g", "a", "r">>>>],
       [name |-> <<"D", "h", "a", "n", "b", "a", "d">>,
        stateIdx |-> 9, lat |-> 237957, lon |-> 864304,
        aliases |-> <<>>],
       [name |-> <<"A", "m", "r", "i", "t", "s", "a", "r">>,
        stateIdx |-> 19, lat |-> 316340, lon |-> 748723,
        aliases |-> <<>>],
       [name |-> <<"N", "a", "v", "i", " ", "M", "u", "m", "b", "a", "i">>,
        stateIdx |-> 13, lat |-> 190330, lon |-> 730297,
        aliases |-> <<>>],
       [name |-> <<"A", "l", "l", "a", "h", "a", "b", "a", "d">>,
        stateIdx |-> 25, lat |-> 254358, lon |-> 818463,
        aliases |-> <<<<"P", "r", "a", "y", "a", "g", "r", "a", "j">>>>],
       [name |-> <<"R", "a", "n", "c", "h", "i">>,
        stateIdx |-> 9, lat |-> 233441, lon |-> 853096,
        aliases |-> <<>>],
       [name |-> <<"H", "o", "w", "r", "a", "h">>,
        stateIdx |-> 27, lat |-> 225769, lon |-> 883186,
        aliases |-> <<>>],
       [name |-> <<"J", "a", "b", "a", "l", "p", "u", "r">>,
        stateIdx |-> 12, lat |-> 231667, lon |-> 799333,
        aliases |-> <<>>],
       [name |-> <<"G", "w", "a", "l", "i", "o", "r">>,
        stateIdx |-> 12, lat |-> 262124, lon |-> 781772,
        aliases |-> <<>>],
       [name |-> <<"V", "i", "j", "a", "y", "a", "w", "a", "d", "a">>,
        stateIdx |-> 0, lat |-> 165062, lon |-> 806480,
        aliases |-> <<>>],
       [name |-> <<"J", "o", "d", "h", "p", "u", "r">>,
        stateIdx |-> 20, lat |-> 262389, lon |-> 730243,
        aliases |-> <<>>],
       [name |-> <<"M", "a", "d", "u", "r", "a", "i">>,
        stateIdx |-> 22, lat |-> 99252, lon |-> 781198,
        aliases |-> <<>>],
       [name |-> <<"R", "a", "i", "p", "u", "r">>,
        stateIdx |-> 4, lat |-> 212514, lon |-> 816296,
        aliases |-> <<>>],
       [name |-> <<"K", "o", "t", "a">>,
        stateIdx |-> 20, lat |-> 252138, lon |-> 758648,
        aliases |-> <<>>],
       [name |-> <<"G", "u", "w", "a", "h", "a", "t", "i">>,
        stateIdx |-> 2, lat |-> 261445, lon |-> 917362,
        aliases |-> <<>>],
       [name |-> <<"C", "h", "a", "n", "d", "i", "g", "a", "r", "h">>,
        stateIdx |-> 29, lat |-> 307333, lon |-> 767794,
        aliases |-> <<>>],
       [name |-> <<"S", "o", "l", "a", "p", "u", "r">>,
        stateIdx |-> 13, lat |-> 176599, lon |-> 759064,
        aliases |-> <<>>],
       [name |-> <<"H", "u", "b", "b", "a", "l", "l", "i", "-", "D", "h", "a", "r", "w", "a", "d">>,
        stateIdx |-> 10, lat |-> 153647, lon |-> 751240,
        aliases |-> <<>>],
       [name |-> <<"B", "a", "r", "e", "i", "l", "l", "y">>,
        stateIdx |-> 25, lat |-> 283670, lon |-> 794304,
        aliases |-> <<>>],
       [name |-> <<"M", "o", "r", "a", "d", "a", "b", "a", "d">>,
        stateIdx |-> 25, lat |-> 288350, lon |-> 787733,
        aliases |-> <<>>],
       [name |-> <<"M", "y", "s", "o", "r", "e">>,
        stateIdx |-> 10, lat |-> 122958, lon |-> 766394,
        aliases |-> <<<<"M", "y", "s", "u", "r", "u">>>>],
       [name |-> <<"G", "u", "r", "g", "a", "o", "n">>,
        stateIdx |-> 7, lat |-> 284595, lon |-> 770266,
        aliases |-> <<<<"G", "u", "r", "u", "g", "r", "a", "m">>>>],
       [name |-> <<"A", "l", "i", "g", "a", "r", "h">>,
        stateIdx |-> 25, lat |-> 278974, lon |-> 780880,
        aliases |-> <<>>],
       [name |-> <<"J", "a", "l", "a", "n", "d", "h", "a", "r">>,
        stateIdx |-> 19, lat |-> 313260, lon |-> 755762,
        aliases |-> <<>>],
       [name |-> <<"T", "i", "r", "u", "c", "h", "i", "r", "a", "p", "p", "a", "l", "l", "i">>,
        stateIdx |-> 22, lat |-> 108505, lon |-> 787047,
        aliases |-> <<<<"T", "r", "i", "c", "h", "y">>>>],
       [name |-> <<"B", "h", "u", "b", "a", "n", "e", "s", "w", "a", "r">>,
        stateIdx |-> 17, lat |-> 202961, lon |-> 858245,
        aliases |-> <<>>],
       [name |-> <<"S", "a", "l", "e", "m">>,
        stateIdx |-> 22, lat |-> 116643, lon |-> 781460,
        aliases |-> <<>>],
       [name |-> <<"M", "i", "r", "a", "-", "B", "h", "a", "y", "a", "n", "d", "a", "r">>,
        stateIdx |-> 13, lat |-> 192813, lon |-> 728557,
        aliases |-> <<>>],
       [name |-> <<"W", "a", "r", "a", "n", "g", "a", "l">>,
        stateIdx |-> 23, lat |-> 179689, lon |-> 795941,
        aliases |-> <<>>],
       [name |-> <<"G", "u", "n", "t", "u", "r">>,
        stateIdx |-> 0, lat |-> 163067, lon |-> 804365,
        aliases |-> <<>>],
       [name |-> <<"B", "h", "i", "w", "a", "n", "d", "i">>,
        stateIdx |-> 13, lat |-> 192813, lon |-> 730483,
        aliases |-> <<>>],
       [name |-> <<"S", "a", "h", "a", "r", "a", "n", "p", "u", "r">>,
        stateIdx |-> 25, lat |-> 299640, lon |-> 775460,
        aliases |-> <<>>],
       [name |-> <<"G", "o", "r", "a", "k", "h", "p", "u", "r">>,
        stateIdx |-> 25, lat |-> 267606, lon |-> 833731,
        aliases |-> <<>>],
       [name |-> <<"B", "i", "k", "a", "n", "e", "r">>,
        stateIdx |-> 20, lat |-> 280229, lon |-> 733119,
        aliases |-> <<>>],
       [name |-> <<"A", "m", "r", "a", "v", "a", "t", "i">>,
        stateIdx |-> 13, lat |-> 209374, lon |-> 777796,
        aliases |-> <<>>],
       [name |-> <<"N", "o", "i", "d", "a">>,
        stateIdx |-> 25, lat |-> 285355, lon |-> 773910,
        aliases |-> <<>>],
       [name |-> <<"J", "a", "m", "s", "h", "e", "d", "p", "u", "r">>,
        stateIdx |-> 9, lat |-> 228046, lon |-> 862029,
        aliases |-> <<>>],
       [name |-> <<"B", "h", "i", "l", "a", "i">>,
        stateIdx |-> 4, lat |-> 211938, lon |-> 813509,
        aliases |-> <<>>],
       [name |-> <<"C", "u", "t", "t", "a", "c", "k">>,
        stateIdx |-> 17, lat |-> 204625, lon |-> 858830,
        aliases |-> <<>>],
       [name |-> <<"F", "i", "r", "o", "z", "a", "b", "a", "d">>,
        stateIdx |-> 25, lat |-> 271513, lon |-> 783953,
        aliases |-> <<>>],
       [name |-> <<"K", "o", "c", "h", "i">>,
        stateIdx |-> 11, lat |-> 99312, lon |-> 762673,
        aliases |-> <<<<"C", "o", "c", "h", "i", "n">>>>],
       [name |-> <<"N", "e", "l", "l", "o", "r", "e">>,
        stateIdx |-> 0, lat |-> 144426, lon |-> 799865,
        aliases |-> <<>>],
       [name |-> <<"B", "h", "a", "v", "n", "a", "g", "a", "r">>,
        stateIdx |-> 6, lat |-> 217645, lon |-> 721519,
        aliases |-> <<>>],
       [name |-> <<"D", "e", "h", "r", "a", "d", "u", "n">>,
        stateIdx |-> 26, lat |-> 303165, lon |-> 780322,
        aliases |-> <<>>],
       [name |-> <<"D", "u", "r", "g", "a", "p", "u", "r">>,
        stateIdx |-> 27, lat |-> 235204, lon |-> 873119,
        aliases |-> <<>>],
       [name |-> <<"A", "s", "a", "n", "s", "o", "l">>,
        stateIdx |-> 27, lat |-> 236739, lon |-> 869405,
        aliases |-> <<>>],
       [name |-> <<"R", "o", "u", "r", "k", "e", "l", "a">>,
        stateIdx |-> 17, lat |-> 222604, lon |-> 848536,
        aliases |-> <<>>],
       [name |-> <<"N", "a", "n", "d", "e", "d">>,
        stateIdx |-> 13, lat |-> 191383, lon |-> 773210,
        aliases |-> <<>>],
       [name |-> <<"K", "o", "l", "h", "a", "p", "u", "r">>,
        stateIdx |-> 13, lat |-> 167050, lon |-> 742433,
        aliases |-> <<>>],
       [name |-> <<"A", "j", "m", "e", "r">>,
        stateIdx |-> 20, lat |-> 264499, lon |-> 746399,
        aliases |-> <<>>],
       [name |-> <<"G", "u", "l", "b", "a", "r", "g", "a">>,
        stateIdx |-> 10, lat |-> 173297, lon |-> 768343,
        aliases |-> <<<<"K", "a", "l", "a", "b", "u", "r", "a", "g", "i">>>>],
       [name |-> <<"J", "a", "m", "n", "a", "g", "a", "r">>,
        stateIdx |-> 6, lat |-> 224707, lon |-> 700577,
        aliases |-> <<>>],
       [name |-> <<"U", "j", "j", "a", "i", "n">>,
        stateIdx |-> 12, lat |-> 231760, lon |-> 757885,
        aliases |-> <<>>],
       [name |-> <<"L", "o", "n", "i">>,
        stateIdx |-> 25, lat |-> 287500, lon |-> 772833,
        aliases |-> <<>>],
       [name |-> <<"S", "i", "l", "i", "g", "u", "r", "i">>,
        stateIdx |-> 27, lat |-> 267271, lon |-> 883953,
        aliases |-> <<>>],
       [name |-> <<"J", "h", "a", "n", "s", "i">>,
        stateIdx |-> 25, lat |-> 254484, lon |-> 785685,
        aliases |-> <<>>],
       [name |-> <<"U", "l", "h", "a", "s", "n", "a", "g", "a", "r">>,
        stateIdx |-> 13, lat |-> 192215, lon |-> 731645,
        aliases |-> <<>>],
       [name |-> <<"J", "a", "m", "m", "u">>,
        stateIdx |-> 32, lat |-> 327266, lon |-> 748570,
        aliases |-> <<>>],
       [name |-> <<"S", "a", "n", "g", "l", "i", "-", "M", "i", "r", "a", "j", " ", "&", " ", "K", "u", "p", "w", "a", "d">>,
        stateIdx |-> 13, lat |-> 168524, lon |-> 745815,
        aliases |-> <<>>],
       [name |-> <<"M", "a", "n", "g", "a", "l", "o", "r", "e">>,
        stateIdx |-> 10, lat |-> 129141, lon |-> 748560,
        aliases |-> <<<<"M", "a", "n", "g", "a", "l", "u", "r", "u">>>>],
       [name |-> <<"E", "r", "o", "d", "e">>,
        stateIdx |-> 22, lat |-> 113410, lon |-> 777172,
        aliases |-> <<>>],
       [name |-> <<"B", "e", "l", "g", "a", "u", "m">>,
        stateIdx |-> 10, lat |-> 158497, lon |-> 744977,
        aliases |-> <<<<"B", "e", "l", "a", "g", "a", "v", "i">>>>],
       [name |-> <<"A", "m", "b", "a", "t", "t", "u", "r">>,
        stateIdx |-> 22, lat |-> 131143, lon |-> 801482,
        aliases |-> <<>>],
       [name |-> <<"T", "i", "r", "u", "n", "e", "l", "v", "e", "l", "i">>,
        stateIdx |-> 22, lat |-> 87139, lon |-> 777567,
        aliases |-> <<>>],
       [name |-> <<"M", "a", "l", "e", "g", "a", "o", "n">>,
        stateIdx |-> 13, lat |-> 205517, lon |-> 745089,
        aliases |-> <<>>],
       [name |-> <<"G", "a", "y", "a">>,
        stateIdx |-> 3, lat |-> 247914, lon |-> 850002,
        aliases |-> <<>>],
       [name |-> <<"J", "a", "l", "g", "a", "o", "n">>,
        stateIdx |-> 13, lat |-> 210077, lon |-> 755626,
        aliases |-> <<>>],
       [name |-> <<"U", "d", "a", "i", "p", "u", "r">>,
        stateIdx |-> 20, lat |-> 245854, lon |-> 737125,
        aliases |-> <<>>],
       [name |-> <<"M", "a", "h", "e", "s", "h", "t", "a", "l", "a">>,
        stateIdx |-> 27, lat |-> 225085, lon |-> 882530,
        aliases |-> <<>>] >>
UpperCase ==
    <<"A", "B", "C", "D", "E", "F", "G", "H", "I", "J", "K", "L", "M",
      "N", "O", "P", "Q", "R", "S", "T", "U", "V", "W", "X", "Y", "Z">>
LowerCase ==
    <<"a", "b", "c", "d", "e", "f", "g", "h", "i", "j", "k", "l", "m",
      "n", "o", "p", "q", "r", "s", "t", "u", "v", "w", "x", "y", "z">>

toLowerCase(s) ==
    LET lower(c) ==
            IF \E k \in 1..Len(UpperCase) : UpperCase[k] = c
            THEN LowerCase[CHOOSE k \in 1..Len(UpperCase) : UpperCase[k] = c]
            ELSE c
    IN  [i \in 1..Len(s) |-> lower(s[i])]

WhiteSpace == {" ", "\t"}

\* what is left between the first and the last character that is no white
\* space
trim(s) ==
    LET kept == {i \in 1..Len(s) : s[i] \notin WhiteSpace}
    IN  IF kept = {} THEN <<>>
        ELSE SubSeq(s, CHOOSE i \in kept : \A j \in kept : i <= j,
                       CHOOSE i \in kept : \A j \in kept : j <= i)

includes(s, t) ==
    \E i \in 0..(Len(s) - Len(t)) : SubSeq(s, i + 1, i + Len(t)) = t

\* A Map is the sequence of its entries in insertion order; get gives
\* undefined for a key that has no entry
NotFound == [undefined |-> TRUE]
MapGet(m, k) ==
    IF \E i \in 1..Len(m) : m[i].key = k
    THEN m[CHOOSE i \in 1..Len(m) : m[i].key = k].value
    ELSE NotFound

cityObj(row) ==
    [name |-> row.name,
     state |-> states[row.stateIdx + 1],
     latitude |-> row.lat,
     longitude |-> row.lon,
     timezone |-> "Asia/Kolkata",
     searchKey |-> toLowerCase(row.name),
     aliases |-> [i \in 1..Len(row.aliases) |-> toLowerCase(row.aliases[i])]]

\* The calls of cityRegistry.set in the order rawData.forEach makes them are
\* <<i, 0>> for the name of row i and <<i, k>> for its k-th alias. The first
\* set of a key creates its entry, at the end of the Map; a later set of the
\* same key replaces the value and keeps the position.
_initializeDataset ==
    LET setCalls ==
            UNION {{<<i, k>> : k \in 0..Len(rawData[i].aliases)}
                   : i \in 1..Len(rawData)}
        before(a, b) == a[1] < b[1] \/ (a[1] = b[1] /\ a[2] < b[2])
        keyOf(c) ==
            IF c[2] = 0 THEN toLowerCase(rawData[c[1]].name)
            ELSE toLowerCase(rawData[c[1]].aliases[c[2]])
        creating ==
            {c \in setCalls : \A d \in setCalls : before(d, c) => keyOf(d) # keyOf(c)}
        lastOf(key) ==
            CHOOSE c \in setCalls :
                /\ keyOf(c) = key
                /\ \A d \in setCalls : keyOf(d) = key => ~before(c, d)
    IN  [n \in 1..Cardinality(creating) |->
            LET c == CHOOSE c \in creating :
                         Cardinality({d \in creating : before(d, c)}) = n - 1
            IN  [key |-> keyOf(c),
                 value |-> cityObj(rawData[lastOf(keyOf(c))[1]])]]

\* The registry after the constructor; no method writes it.
cityRegistry == _initializeDataset

Null == [null |-> TRUE]
Str(s) == [type |-> "string", chars |-> s]
IsString(q) == q.type = "string"
Falsy(q) == IF IsString(q) THEN q.chars = <<>> ELSE q.type \in {"null", "undefined"}

Thrown(msg) == [threw |-> TRUE, message |-> msg]
Returned(v) == [threw |-> FALSE, value |-> v]

stateMatches(city, stateFilter) ==
    \/ Falsy(stateFilter)
    \/ toLowerCase(city.state) = toLowerCase(stateFilter.chars)

fuzzyCandidates(normalizedQuery, stateFilter) ==
    LET Matches(entry) ==
            /\ \/ includes(entry.key, normalizedQuery)
               \/ includes(normalizedQuery, entry.key)
            /\ stateMatches(entry.value, stateFilter)
        entries == SelectSeq(cityRegistry, Matches)
    IN  [i \in 1..Len(entries) |-> entries[i].value]

\* candidates.sort((a, b) => a.name.length - b.name.length), a stable sort:
\* an element comes after those with a shorter name and after the earlier ones
\* with a name of the same length
sortByNameLength(candidates) ==
    LET ahead(i) ==
            {j \in 1..Len(candidates) :
                \/ Len(candidates[j].name) < Len(candidates[i].name)
                \/ /\ Len(candidates[j].name) = Len(candidates[i].name)
                   /\ j < i}
    IN  [p \in 1..Len(candidates) |->
            candidates[CHOOSE i \in 1..Len(candidates) : Cardinality(ahead(i)) = p - 1]]

normalizeQuery_untrimmed(q) == toLowerCase(q.chars)
normalizeQuery(q) == toLowerCase(trim(q.chars))

findCity(q, stateFilter) ==
    IF Falsy(q) \/ ~IsString(q) THEN Thrown("Invalid city search query.")
    ELSE LET normalizedQuery == normalizeQuery(q)
             result == MapGet(cityRegistry, normalizedQuery)
             candidates == fuzzyCandidates(normalizedQuery, stateFilter)
         IN  IF result # NotFound /\ stateMatches(result, stateFilter)
             THEN Returned(result)
             ELSE IF Len(candidates) > 0
             THEN Returned(sortByNameLength(candidates)[1])
             ELSE Returned(Null)

\* ------------------------------------------------------------ query inputs
RegisteredNames ==
    UNION {{rawData[i].name} \cup {rawData[i].aliases[k] : k \in 1..Len(rawData[i].aliases)}
           : i \in 1..Len(rawData)}

\* Spellings of a registered name: lower case, surrounding white space
ExactQueries ==
    UNION {{n, toLowerCase(n), <<" ">> \o n \o <<" ", " ">>,
            <<"\t">> \o toLowerCase(n)}
           : n \in RegisteredNames}
\* Near misses: a letter dropped at either end, a letter added, the first
\* letters only
PartialQueries ==
    UNION {{SubSeq(n, 1, Len(n) - 1), SubSeq(n, 2, Len(n)), n \o <<"x">>,
            SubSeq(n, 1, 3)}
           : n \in RegisteredNames}
\* with the empty query, blank ones, unrelated ones and values that are no
\* string
Queries ==
    {Str(s) : s \in ExactQueries \cup PartialQueries
                        \cup {<<>>, <<" ">>, <<"\t", " ">>, <<"x", "y", "z">>,
                              <<"q">>, <<"a">>}}
        \cup {[type |-> "number"], [type |-> "null"], [type |-> "undefined"]}
NoFilter == [type |-> "null"]
GeoFilters ==
    {NoFilter, Str(states[14]), Str(toLowerCase(states[23])), Str(states[6])}

CallFindCity ==
    /\ op = "idle"
    /\ \E q \in Queries, f \in GeoFilters :
        /\ op' = "findCity"
        /\ queryIn' = q
        /\ filterIn' = f
        /\ cityOut' = findCity(q, f)
        /\ UNCHANGED <<tables, dashaVars, calVars, pureVars, chatVars>>

GeoNext ==
    \/ CallFindCity
    \/ Return

GeoSpec == Init /\ [][GeoNext]_vars

\* ============================================================ chat handler
MaxCalls == 2

\* geo.search is the city lookup, an outside collaborator: what it returns
\* for a text of two letters or more
SearchTexts == {<<>>, <<"p">>, <<"p", "u">>}
SearchOutcomes ==
    LET Pune == [name |-> "Pune", state |-> "Maharashtra"]
        Jaipur == [name |-> "Jaipur", state |-> "Rajasthan"]
    IN  {<<>>, <<Pune>>, <<Pune, Jaipur>>}

\* what the user types in the chat box
Inputs == {"", "Query specific transit impact"}

TypedPrompt(text) == [kind |-> "typed", text |-> text]
CityPrompt(city) == [kind |-> "city", city |-> city.name, state |-> city.state]
\* !prompt
EmptyPrompt(prompt) == prompt.kind = "typed" /\ prompt.text = ""

\* the body the service answers with: a text, an empty text, or no candidates
Bodies ==
    {[candidates |-> FALSE, text |-> ""],
     [candidates |-> TRUE, text |-> ""],
     [candidates |-> TRUE, text |-> "Transit report"]}

\* data.candidates?.[0]?.content?.parts?.[0]?.text || "Link severed."
responseText_noFallback(data) == data.text
responseText(data) ==
    IF data.candidates /\ data.text # "" THEN data.text ELSE "Link severed."

Pending == {r \in 1..Len(requests) : requests[r] \in {"fetch", "json"}}

handleSearch ==
    \E q \in SearchTexts, found \in SearchOutcomes :
        /\ query' = q
        /\ searchResults' = IF Len(q) > 1 THEN found ELSE <<>>
        /\ UNCHANGED <<selectedCity, aiResponse, loading, input>>
        /\ UNCHANGED <<calls, requests, lastPrompt, shownFor>>
        /\ UNCHANGED <<tables, op, dashaVars, calVars, pureVars, geoVars>>

TypeInput ==
    \E text \in Inputs :
        /\ input' = text
        /\ UNCHANGED <<selectedCity, query, searchResults, aiResponse, loading>>
        /\ UNCHANGED <<calls, requests, lastPrompt, shownFor>>
        /\ UNCHANGED <<tables, op, dashaVars, calVars, pureVars, geoVars>>

\* triggerAi up to its first await: nothing for an empty prompt, otherwise
\* setLoading(true) and the fetch is sent
triggerAi(prompt) ==
    /\ calls < MaxCalls
    /\ calls' = calls + 1
    /\ lastPrompt' = prompt
    /\ IF EmptyPrompt(prompt)
       THEN UNCHANGED <<loading, requests>>
       ELSE /\ loading' = TRUE
            /\ requests' = Append(requests, "fetch")
    /\ UNCHANGED <<aiResponse, input, shownFor>>

\* Enter or the send button: triggerAi(input)
SendInput ==
    /\ triggerAi(TypedPrompt(input))
    /\ UNCHANGED <<selectedCity, query, searchResults>>
    /\ UNCHANGED <<tables, op, dashaVars, calVars, pureVars, geoVars>>

selectCity ==
    \E k \in 1..Len(searchResults) :
        /\ selectedCity' = searchResults[k]
        /\ query' = <<>>
        /\ searchResults' = <<>>
        /\ triggerAi(CityPrompt(searchResults[k]))
        /\ UNCHANGED <<tables, op, dashaVars, calVars, pureVars, geoVars>>

\* the finally block, after setAiResponse(text) of the try or the catch block
Settle(r, text) ==
    /\ aiResponse' = text
    /\ loading' = FALSE
    /\ input' = ""
    /\ requests' = [requests EXCEPT ![r] = "settled"]
    /\ shownFor' = r
    /\ UNCHANGED <<selectedCity, query, searchResults, calls, lastPrompt>>
    /\ UNCHANGED <<tables, op, dashaVars, calVars, pureVars, geoVars>>

\* await fetch(...) resolves: res.json() is awaited next
FetchResolves(r) ==
    /\ r \in 1..Len(requests) /\ requests[r] = "fetch"
    /\ requests' = [requests EXCEPT ![r] = "json"]
    /\ UNCHANGED <<appState, calls, lastPrompt, shownFor>>
    /\ UNCHANGED <<tables, op, dashaVars, calVars, pureVars, geoVars>>

\* await fetch(...) rejects: the catch block
FetchRejects(r) ==
    /\ r \in 1..Len(requests) /\ requests[r] = "fetch"
    /\ Settle(r, "Signal interference detected.")

\* await res.json() resolves with the body
JsonResolves(r) ==
    /\ r \in 1..Len(requests) /\ requests[r] = "json"
    /\ \E data \in Bodies : Settle(r, responseText(data))

\* await res.json() rejects (the body is no JSON): the catch block
JsonRejects(r) ==
    /\ r \in 1..Len(requests) /\ requests[r] = "json"
    /\ Settle(r, "Signal interference detected.")

Settles(r) ==
    FetchResolves(r) \/ FetchRejects(r) \/ JsonResolves(r) \/ JsonRejects(r)

ChatNext ==
    \/ handleSearch
    \/ TypeInput
    \/ SendInput
    \/ selectCity
    \/ \E r \in 1..MaxCalls : FetchResolves(r)
    \/ \E r \in 1..MaxCalls : FetchRejects(r)
    \/ \E r \in 1..MaxCalls : JsonResolves(r)
    \/ \E r \in 1..MaxCalls : JsonRejects(r)

ChatSpec == Init /\ [][ChatNext]_vars

\* every fetch and every res.json() settles in the end
ChatLiveSpec == ChatSpec /\ \A r \in 1..MaxCalls : WF_vars(Settles(r))

\* ============================================================== properties
Dur(p) == p.endJD.v - p.startJD.v
Defined(p) == ~p.startJD.nan /\ ~p.endJD.nan /\ p.lord # Undefined

RECURSIVE SumDur(_)
SumDur(ps) == IF ps = <<>> THEN 0 ELSE Dur(Head(ps)) + SumDur(Tail(ps))

RECURSIVE SumSeq(_)
SumSeq(xs) == IF xs = <<>> THEN 0 ELSE Head(xs) + SumSeq(Tail(xs))

Range(xs) == {xs[k] : k \in 1..Len(xs)}

Vim == dashaDefinitions.VIMSHOTTARI
\* the tabulated years of a lord, and that duration in ticks
FullYears(planets, durations, lord) == durations[IndexOf(planets, lord) + 1]
FullDays(planets, durations, lord) == FullYears(planets, durations, lord) * SIDEREAL_YEAR
\* the lord that follows a lord in a cycle
NextLord(planets, lord) == planets[((IndexOf(planets, lord) + 1) % Len(planets)) + 1]

HasTimeline == op = "calculateVimshottariDasha"
HasAppTimeline == op = "calculateDasha"
Consumed == getNakshatraInfo(moonLong).fractionConsumed

\* C1: in every Mahadasha of the timeline, the truncated first one included,
\* the first Antardasha starts at the Mahadasha's startJD, the last one ends
\* at its endJD, and the Antardasha durations sum to the Mahadasha's duration.
C1_AntardashasFillMahadasha ==
    HasTimeline =>
        \A m \in 1..Len(timeline) :
            LET md == timeline[m]
                a == md.antardashas
            IN  /\ Len(a) > 0
                /\ \A j \in 1..Len(a) : Defined(a[j])
                /\ a[1].startJD = md.startJD
                /\ a[Len(a)].endJD = md.endJD
                /\ SumDur(a) = Dur(md)

C1_Witness ==
    /\ HasTimeline
    /\ Consumed > 0
    /\ Len(timeline) = 9
    /\ Dur(timeline[1]) > 0
    /\ SumDur(timeline[1].antardashas) = Dur(timeline[1])
    /\ timeline[1].antardashas[9].endJD = timeline[1].endJD

\* a list of periods that starts at start, each period starting where the
\* one before it ends, and none ending before it starts
GapFree(ps, start) ==
    /\ Len(ps) > 0
    /\ ps[1].startJD = start
    /\ \A k \in 1..Len(ps) : Defined(ps[k]) /\ ps[k].endJD.v >= ps[k].startJD.v
    /\ \A k \in 2..Len(ps) : ps[k].startJD = ps[k - 1].endJD

\* C2: the timeline is gap-free and non-overlapping at every level: the
\* Mahadasha list starts at birthJD, every period starts where the previous
\* one ends and has endJD >= startJD, and so does each Antardasha list; in
\* the core engine and in App.jsx, for every Moon longitude in [0, 360).
C2_GapFree ==
    /\ HasTimeline =>
        /\ GapFree(timeline, Num(birthJD))
        /\ \A m \in 1..Len(timeline) :
               GapFree(timeline[m].antardashas, timeline[m].startJD)
    /\ HasAppTimeline => GapFree(appTimeline, Num(birthJD))

C2_Witness ==
    /\ HasTimeline
    /\ moonLong > 0
    /\ Len(timeline) = 9
    /\ timeline[9].startJD = timeline[8].endJD
    /\ timeline[9].antardashas[2].startJD = timeline[9].antardashas[1].endJD
    /\ Dur(timeline[9].antardashas[1]) > 0

\* C3: the last Mahadasha ends at or after birthJD + 120 sidereal years, and
\* the overshoot is less than that last period.
Horizon == birthJD + 120 * SIDEREAL_YEAR
CoversHorizon(ps) ==
    /\ Len(ps) > 0
    /\ ps[Len(ps)].endJD.v >= Horizon
    /\ ps[Len(ps)].endJD.v - Horizon < Dur(ps[Len(ps)])

C3_CoversHorizon ==
    /\ HasTimeline => CoversHorizon(timeline)
    /\ HasAppTimeline => CoversHorizon(appTimeline)

\* C4: only the first period is truncated: its duration is
\* (1 - fractionConsumed) of its lord's tabulated duration (the full duration
\* when fractionConsumed = 0), and every later period has its lord's full
\* tabulated duration.
Truncation(ps, planets, durations) ==
    /\ Len(ps) > 0
    /\ \A k \in 1..Len(ps) : Defined(ps[k])
    /\ Dur(ps[1]) = (ArcDen - Consumed) * FullYears(planets, durations, ps[1].lord) * TickScale
    /\ Consumed = 0 => Dur(ps[1]) = FullDays(planets, durations, ps[1].lord)
    /\ \A k \in 2..Len(ps) : Dur(ps[k]) = FullDays(planets, durations, ps[k].lord)

C4_OnlyFirstTruncated ==
    /\ HasTimeline => Truncation(timeline, Vim.planets, Vim.durations)
    /\ HasAppTimeline => Truncation(appTimeline, dashaOrder, dashaDurations)

C4_Witness ==
    /\ HasTimeline
    /\ Consumed > 0
    /\ Dur(timeline[1]) < FullDays(Vim.planets, Vim.durations, timeline[1].lord)
    /\ Dur(timeline[2]) = FullDays(Vim.planets, Vim.durations, timeline[2].lord)

\* C5: the first lord is lordOrder[((nakshatraIndex - offset + 27) mod 27)
\* mod lordOrder.length]; a Moon in nakshatra 24 starts with Jupiter, whose
\* full duration is 16 years; the later lords follow lordOrder cyclically.
C5_FirstLord ==
    HasTimeline =>
        LET index == getNakshatraInfo(moonLong).index
            adjusted == (index - Vim.startNakshatraOffset + 27) % 27
        IN  /\ Len(timeline) > 0
            /\ timeline[1].lord = Vim.planets[(adjusted % Len(Vim.planets)) + 1]
            /\ index = 24 =>
                   /\ timeline[1].lord = "Jupiter"
                   /\ FullYears(Vim.planets, Vim.durations, timeline[1].lord) = 16
            /\ \A k \in 2..Len(timeline) :
                   timeline[k].lord = NextLord(Vim.planets, timeline[k - 1].lord)

C5_Witness ==
    /\ HasTimeline
    /\ getNakshatraInfo(moonLong).index = 24
    /\ Consumed > 0
    /\ timeline[1].lord = "Jupiter"
    /\ timeline[2].lord = "Saturn"

\* C6: the children of a period of lord L and duration D cycle through
\* lordOrder starting at L itself, and each child lasts
\* D * childFullYears / totalCycleYears.  Stated of every Mahadasha of the
\* timeline and of _calculateAntardashas under the VIMSHOTTARI config.
Subdivides(children, lord, days, config) ==
    /\ Len(children) = Len(config.planets)
    /\ children[1].lord = lord
    /\ \A j \in 2..Len(children) :
           children[j].lord = NextLord(config.planets, children[j - 1].lord)
    /\ \A j \in 1..Len(children) :
           /\ Defined(children[j])
           /\ Dur(children[j]) * config.totalCycle
                 = days * FullYears(config.planets, config.durations, children[j].lord)

C7_ChildrenPerScheme ==
    op = "_calculateAntardashas" =>
        /\ Len(ads) = Len(dashaDefinitions[scheme].planets)
        /\ \A j \in 1..Len(ads) : ads[j].lord \in Range(dashaDefinitions[scheme].planets)

\* C8: the tree has three levels: every Mahadasha has Antardashas and every
\* Antardasha has Pratyantardashas, which are the same subdivision applied
\* to the Antardasha's lord, start and duration.
C8_ThreeLevels ==
    HasTimeline =>
        \A m \in 1..Len(timeline) :
            /\ Len(timeline[m].antardashas) > 0
            /\ \A j \in 1..Len(timeline[m].antardashas) :
                   LET ad == timeline[m].antardashas[j]
                   IN  /\ "pratyantardashas" \in DOMAIN ad
                       /\ ad.pratyantardashas
                              = _calculateAntardashas(ad.lord, ad.startJD, Num(Dur(ad)), Vim)

\* C9: every scheme is cycle-complete: its durations are as many as its
\* planets and sum to its totalCycle, which is 120 for VIMSHOTTARI; so are
\* the tables of the App.jsx engine.
C9_CycleComplete ==
    /\ \A s \in Schemes :
           /\ Len(dashaDefinitions[s].durations) = Len(dashaDefinitions[s].planets)
           /\ SumSeq(dashaDefinitions[s].durations) = dashaDefinitions[s].totalCycle
    /\ SumSeq(Vim.durations) = 120
    /\ Vim.totalCycle = 120
    /\ Len(dashaDurations) = Len(dashaOrder)
    /\ SumSeq(dashaDurations) = 120

C9_Witness ==
    /\ op = "_calculateAntardashas"
    /\ scheme = "YOGINI"
    /\ SumSeq(dashaDefinitions.YOGINI.durations) = 36
    /\ Len(dashaDefinitions.ASHTOTTARI.planets) = 8

\* C10: normalize(x) lies in [0, 360) for every x, and
\* normalize(x + 360k) = normalize(x) for every integer k.
InCircle(a) == ~FLess(a, FZero) /\ FLess(a, FNum(FullCircle, 0))
Turns == -2..2
Shifted(a, k) == FNum(a.u + k * FullCircle, a.eps)

C10_NormalizeRange ==
    /\ op = "_normalizeDegrees" =>
        /\ InCircle(normOut)
        /\ \A k \in Turns :
               Shifted(normIn, k) \in NormInputs =>
                   _normalizeDegrees(Shifted(normIn, k)) = normOut
    /\ op = "normalize" =>
        /\ InCircle(normOut)
        /\ \A k \in Turns :
               Shifted(normIn, k) \in NormInputs =>
                   normalize(Shifted(normIn, k)) = normOut


\* ------------------------------------------------------- calendar claims
HasNakshatra == op \in {"getNakshatraInfo", "engineGetNakshatraInfo"}
InRangeLon == lonIn \in 0..(FullCircle - 1)
\* the longitude 320.2 degrees
IsLon3202 == lonIn * 10 = 3202 * LonScale
\* the remaining arc of lonIn past the start of nakshatra index, tripled
RemArc3(index) == 3 * lonIn - index * ArcDen

\* index = floor(longitude / arc) in 0..26 with the table's name, and
\* pada = floor(remaining / (arc / 4)) + 1 in 1..4
IndexNamePada ==
    /\ nakOut.index \in 0..26
    /\ nakOut.index * ArcDen <= 3 * lonIn
    /\ 3 * lonIn < (nakOut.index + 1) * ArcDen
    /\ nakOut.name # Undefined
    /\ nakOut.name = nakshatras[nakOut.index + 1]
    /\ nakOut.pada \in 1..4
    /\ (nakOut.pada - 1) * ArcDen <= 4 * RemArc3(nakOut.index)
    /\ 4 * RemArc3(nakOut.index) < nakOut.pada * ArcDen

\* fractionConsumed = (longitude mod arc) / arc in [0, 1), as a count of
\* 1/ArcDen
FractionConsumedOk ==
    /\ "fractionConsumed" \in DOMAIN nakOut
    /\ nakOut.fractionConsumed = RemArc3(nakOut.index)
    /\ nakOut.fractionConsumed \in 0..(ArcDen - 1)

C12_OutOfRange ==
    (HasNakshatra /\ ~InRangeLon) =>
        /\ error = "OutOfRange"
        /\ nakOut = NoResult

\* ------------------------------------------------------- Julian Day claims
MinYear == -5000
MaxYear == 5000
IsLeap(yr) == yr % 4 = 0 /\ (yr % 100 # 0 \/ yr % 400 = 0)
DaysInMonth(yr, mon) ==
    IF mon = 2 THEN (IF IsLeap(yr) THEN 29 ELSE 28)
    ELSE IF mon \in {4, 6, 9, 11} THEN 30 ELSE 31
\* a civil date and time of the proleptic Gregorian calendar in the supported
\* year range
ValidCivil(c) ==
    /\ c.year \in MinYear..MaxYear
    /\ c.month \in 1..12
    /\ c.day \in 1..DaysInMonth(c.year, c.month)
    /\ c.hour \in 0..23 /\ c.minute \in 0..59 /\ c.second \in 0..59
InvalidCivil(c) ==
    \/ c.month \notin 1..12
    \/ c.day \notin 1..31
    \/ c.year \notin MinYear..MaxYear
ClockSecs(c) == c.hour * SecPerHour + c.minute * SecPerMin + c.second
\* the civil time ymd, secs is at most one second away from the civil time c
Within1Second(ymd, secs, c) ==
    LET dd == daysFromCivil(ymd.year, ymd.month, ymd.day)
                  - daysFromCivil(c.year, c.month, c.day)
    IN  /\ dd \in -1..1
        /\ dd * SecPerDay + secs - ClockSecs(c) \in -1..1

\* C13: for every valid civil time and every offset tz,
\* toDate(calculateJulianDay(Y, M, D, h, m, s, tz)) reproduces
\* (Y, M, D, h, m, s) within 1 second.
C13_RoundTrip ==
    /\ (op = "toDate" /\ ValidCivil(civil)) =>
           Within1Second(date, ClockSecs(date), civil)
    /\ (op = "engineToDate" /\ ValidCivil(civil)) =>
           Within1Second([year |-> date.year, month |-> date.month,
                          day |-> date.day.int], date.day.sod, civil)

\* C14: calculateJulianDay fails with InvalidDate and returns no Julian Day
\* when month is outside 1..12, day outside 1..31 or year outside
\* -5000..5000.
C14_InvalidDate ==
    (op = "calculateJulianDay" /\ InvalidCivil(civil)) =>
        /\ error = "InvalidDate"
        /\ jdOut = NoResult

\* the UTC civil time of the local civil time c at its offset
UtcCivil(c) ==
    LET shifted == ClockSecs(c) - c.tz
        ymd == civilFromDays(daysFromCivil(c.year, c.month, c.day)
                                 + (shifted \div SecPerDay))
        secs == shifted % SecPerDay
    IN  [year |-> ymd.year, month |-> ymd.month, day |-> ymd.day,
         hour |-> secs \div SecPerHour,
         minute |-> (secs % SecPerHour) \div SecPerMin,
         second |-> secs % SecPerMin, tz |-> 0]
\* the Julian Day number of a proleptic Gregorian date (2440588 on 1970-01-01)
GregorianJDN(yr, mon, dom) == daysFromCivil(yr, mon, dom) + 2440588
IsNoon(c) == c.hour = 12 /\ c.minute = 0 /\ c.second = 0

\* C15: the Julian Day of a local civil time at offset tz is the Julian Day
\* of the corresponding UTC civil time at offset 0, and a UTC noon maps to the
\* integer Julian Day of the proleptic Gregorian formula
\* (2000-01-01 12:00 UTC to 2451545.0).
C15_UtcReferenced ==
    (op = "calculateJulianDay" /\ ValidCivil(civil)) =>
        /\ jdOut = calculateJulianDay(UtcCivil(civil))
        /\ IsNoon(UtcCivil(civil)) =>
               /\ jdOut.sod * 2 = SecPerDay
               /\ jdOut.jdn = GregorianJDN(UtcCivil(civil).year,
                                           UtcCivil(civil).month,
                                           UtcCivil(civil).day)
        /\ (civil = [year |-> 2000, month |-> 1, day |-> 1, hour |-> 12,
                     minute |-> 0, second |-> 0, tz |-> 0]) =>
               jdOut.jdn = 2451545

\* --------------------------------------------------------- panchang claims
HasPanchang == op = "calculatePanchang"
\* normalize(moon - sun) of the call's arguments
PanDiff == normalize(FSub(panMoon, panSun))
FLessEq(a, b) == ~FLess(b, a)
Degrees(d) == FNum(d * LonScale, 0)
IsScenario ==
    /\ panMoon = FNum(3202 * (LonScale \div 10), 0)
    /\ panSun = FNum(2555 * (LonScale \div 10), 0)
    /\ LonScale % 10 = 0

\* C16: tithi = floor(normalize(moon - sun) / 12) + 1 capped at 30, always
\* in 1..30; Moon 320.2 and Sun 255.5 give tithi 6.
C16_Tithi ==
    HasPanchang =>
        /\ panchang.tithi \in 1..30
        /\ panchang.tithi < 30 =>
               /\ FLessEq(Degrees(12 * (panchang.tithi - 1)), PanDiff)
               /\ FLess(PanDiff, Degrees(12 * panchang.tithi))
        /\ panchang.tithi = 30 => FLessEq(Degrees(12 * 29), PanDiff)
        /\ IsScenario => panchang.tithi = 6

\* the scenario of the App
C16_Witness ==
    /\ HasPanchang
    /\ IsScenario
    /\ panchang.tithi = 6

\* a call whose Sun longitude lies just above the Moon's: normalize returns
\* 360 and the cap decides
C16_CapWitness ==
    /\ HasPanchang
    /\ PanDiff = Degrees(360)
    /\ panchang.tithi = 30

\* C17: the panchang carries a paksha, "waxing" exactly when
\* normalize(moon - sun) < 180 and "waning" otherwise.
C17_Paksha ==
    HasPanchang =>
        /\ "paksha" \in DOMAIN panchang
        /\ panchang.paksha \in {"waxing", "waning"}
        /\ panchang.paksha = "waxing" <=> FLess(PanDiff, Degrees(180))

\* C18: the weekday is entry floor(jd + 1.5) mod 7 of the table starting at
\* Sunday: the index is in 0..6 and a name is returned for every jd, the
\* next day giving the next name.
C18_Weekday ==
    HasPanchang =>
        /\ panchang.weekday # Undefined
        /\ panchang.weekday = weekdays[(floorJDPlus(panJD) % 7) + 1]

\* floor(normalize(moon - sun) / 6), the half-tithi count
KaranaValue == FFloorDiv(PanDiff, 6 * LonScale)
KaranaCycle == <<"Bava", "Balava", "Kaulava", "Taitila", "Gara", "Vanija", "Vishti">>
KaranaTerminal == {"Shakuni", "Chatushpada", "Naga"}

\* C19: the karana follows the three-way branch on value = floor(diff / 6):
\* "Kintughna" at 0, a fixed terminal karana from 57 on, and entry
\* (value - 1) mod 7 of the cyclic table in between.
C19_Karana ==
    HasPanchang =>
        /\ "karana" \in DOMAIN panchang
        /\ KaranaValue = 0 => panchang.karana = "Kintughna"
        /\ KaranaValue >= 57 => panchang.karana \in KaranaTerminal
        /\ KaranaValue \in 1..56 =>
               panchang.karana = KaranaCycle[((KaranaValue - 1) % 7) + 1]

\* --------------------------------------------------------- sidereal claim
\* C20: computeSiderealLongitude is normalize(tropical - ayanamsa(jd)), lies
\* in [0, 360), and the loop-based and the modulo-based implementation
\* return the same value.
C20_SiderealLongitude ==
    /\ op = "computeSiderealLongitude" =>
           /\ sidOut = normalize(sidIn)
           /\ FLessEq(FNum(0, 0), sidOut) /\ FLess(sidOut, FNum(FullCircle, 0))
           /\ sidOut = engineComputeSiderealLongitude(sidIn)
    /\ op = "engineComputeSiderealLongitude" =>
           /\ FLessEq(FNum(0, 0), sidOut) /\ FLess(sidOut, FNum(FullCircle, 0))
           /\ sidOut = computeSiderealLongitude(sidIn)

\* ------------------------------------------------------------ purity claim
TablesAsConstructed ==
    /\ dashaDefinitions = dashaDefinitionsInit
    /\ nakshatras = nakshatrasInit
    /\ dashaDurations = dashaDurationsInit
    /\ dashaOrder = dashaOrderInit
SameCallAsKept ==
    /\ prev # NoResult
    /\ op = prev.op
    /\ moonLong = prev.moonLong
    /\ birthJD = prev.birthJD

\* C21: two calls with equal arguments return equal results, whatever was
\* called before and whatever the locale, time zone or clock, and no call
\* changes dashaDefinitions, nakshatras, dashaDurations or dashaOrder.
C21_Pure ==
    /\ TablesAsConstructed
    /\ SameCallAsKept =>
           /\ timeline = prev.timeline
           /\ appTimeline = prev.appTimeline

\* ------------------------------------------------- malformed longitude claim
HasMalformed ==
    op \in {"calculateVimshottariDasha (malformed)", "calculateDasha (malformed)"}
AllDefined(ps) == \A k \in 1..Len(ps) : Defined(ps[k])

\* C22: for a Moon longitude that is undefined, NaN or outside [0, 360) the
\* Dasha generation reports InvalidLongitude and returns no timeline; no
\* timeline it returns holds an undefined lord or a boundary that is no
\* number.
C22_InvalidLongitude ==
    /\ HasMalformed =>
           /\ error = "InvalidLongitude"
           /\ timeline = NoTimeline
           /\ appTimeline = NoTimeline
    /\ AllDefined(timeline)
    /\ AllDefined(appTimeline)

\* ----------------------------------------------------------- findCity claims
HasCity == op = "findCity"
RegistryKeys == {cityRegistry[i].key : i \in 1..Len(cityRegistry)}
Cities == {cityObj(rawData[i]) : i \in 1..Len(rawData)}
KeysOf(city) == {city.searchKey} \cup Range(city.aliases)
NamedBy(s) == {c \in Cities : toLowerCase(trim(s)) \in KeysOf(c)}
Madras == <<"M", "a", "d", "r", "a", "s">>
Chennai == <<"C", "h", "e", "n", "n", "a", "i">>

\* C23: without a state filter a query that equals a registered name or
\* alias, after trimming and ignoring case, resolves to that city's record;
\* so a name and its aliases resolve to the same record.
C23_ExactMatch ==
    (HasCity /\ filterIn = NoFilter /\ IsString(queryIn)) =>
        \A c \in NamedBy(queryIn.chars) : cityOut = Returned(c)

C23_Witness ==
    /\ HasCity /\ filterIn = NoFilter
    /\ queryIn = Str(<<" ">> \o Madras \o <<" ", " ">>)
    /\ cityOut = Returned(CHOOSE c \in Cities : c.name = Chennai)

KeyMatches(city, nq) ==
    \E k \in KeysOf(city) : includes(k, nq) \/ includes(nq, k)
Matching(nq) == {c \in Cities : KeyMatches(c, nq)}
Blank(q) == ~IsString(q) \/ trim(q.chars) = <<>>
ShortestOf(v, M) == v \in M /\ \A c \in M : Len(v.name) <= Len(c.name)

\* C24: without a state filter, an empty or non-string query throws; a query
\* with no exact match returns null when no registry key contains it or is
\* contained in it, and otherwise a city with such a key whose name is the
\* shortest among those cities.
C24_FuzzyMatch ==
    (HasCity /\ filterIn = NoFilter) =>
        IF Blank(queryIn) THEN cityOut.threw
        ELSE normalizeQuery(queryIn) \notin RegistryKeys =>
                 /\ ~cityOut.threw
                 /\ IF Matching(normalizeQuery(queryIn)) = {}
                    THEN cityOut.value = Null
                    ELSE ShortestOf(cityOut.value, Matching(normalizeQuery(queryIn)))

\* ------------------------------------------------- the two implementations
Lords(ps) == {ps[k].lord : k \in 1..Len(ps)}
SameMahadashas(core, app) ==
    /\ Len(core) = 9 /\ Len(app) = 9
    /\ Cardinality(Lords(core)) = 9 /\ Cardinality(Lords(app)) = 9
    /\ \A k \in 1..9 :
           /\ core[k].lord = app[k].lord
           /\ core[k].startJD = app[k].startJD
           /\ core[k].endJD = app[k].endJD

\* C25: for every Moon longitude in [0, 360) and birthJD, calculateDasha of
\* App.jsx and calculateVimshottariDasha of the core engine give 9 Mahadashas
\* with the same lord at each position, each of the 9 lords once, and the
\* same startJD and endJD.
C25_Agree ==
    /\ HasAppTimeline =>
           SameMahadashas(calculateVimshottariDasha(moonLong, birthJD), appTimeline)
    /\ HasTimeline =>
           SameMahadashas(timeline, calculateDasha(moonLong, birthJD))

C25_Witness ==
    /\ HasAppTimeline
    /\ moonLong = ScenarioMoon.u
    /\ birthJD = MaxBirthJD
    /\ appTimeline[1].lord = calculateVimshottariDasha(moonLong, birthJD)[1].lord
    /\ appTimeline[1].endJD.v > appTimeline[1].startJD.v
    /\ appTimeline[9].endJD = calculateVimshottariDasha(moonLong, birthJD)[9].endJD

\* ------------------------------------------------------------ monotonicity
\* the civil time b is at least one second after the civil time a
CivilLater(b, a) ==
    LET db == daysFromCivil(b.year, b.month, b.day)
        da == daysFromCivil(a.year, a.month, a.day)
    IN  db > da \/ (db = da /\ ClockSecs(b) > ClockSecs(a))
\* Julian Days jdn + (sod - 43200) / 86400 with sod in 0..86399
JDLess(a, b) == a.jdn < b.jdn \/ (a.jdn = b.jdn /\ a.sod < b.sod)

\* C26: over the years -5000..5000 and for one timezone offset, a civil
\* instant at least one second later has a strictly larger Julian Day.
C26_Monotonic ==
    (op = "calculateJulianDay" /\ ValidCivil(civil)) =>
        \A c \in CivilInputs :
            (ValidCivil(c) /\ c.tz = civil.tz /\ CivilLater(c, civil)) =>
                JDLess(jdOut, calculateJulianDay(c))

\* ------------------------------------------------------- well-formed toDate
\* C27: for every Julian Day, toDate returns month in 1..12, day in 1..31,
\* hour in 0..23, minute in 0..59 and second in 0..59.
C27_WellFormed ==
    op = "toDate" =>
        /\ date.month \in 1..12
        /\ date.day \in 1..31
        /\ date.hour \in 0..23
        /\ date.minute \in 0..59
        /\ date.second \in 0..59

\* ------------------------------------------------------ chat handler claims
\* C28: loading is true whenever at least one triggerAi request is still
\* awaiting its response.
C28_LoadingWhilePending == Pending # {} => loading

\* C29: once all requests have settled, aiResponse shows the outcome of the
\* request issued last.
C29_LatestWins ==
    (Pending = {} /\ Len(requests) > 0) => shownFor = Len(requests)

\* C30: a triggerAi call with a non-empty prompt leads to a state, reached by
\* its settling, where loading is false, input is cleared and aiResponse is a
\* non-empty string; a call with an empty prompt changes no state of the App.
SettledState(r) ==
    /\ r \in 1..Len(requests) /\ requests[r] = "settled" /\ shownFor = r
    /\ ~loading /\ input = "" /\ aiResponse # ""
C30_Settles ==
    /\ \A r \in 1..MaxCalls : (r \in Pending) ~> SettledState(r)
    /\ [][(calls' # calls /\ EmptyPrompt(lastPrompt')) => UNCHANGED <<appState, requests>>]_vars
    /\ [](shownFor # 0 => aiResponse # "")

C30_Witness ==
    /\ Len(requests) = 2 /\ SettledState(1) /\ requests[2] = "settled"
    /\ aiResponse = "Link severed."

====
